---- MODULE Spec2Model ----
(***************************************************************************)
(* A model of the JSON-RPC dispatcher of the PowerPoint MCP HTTP server    *)
(* (src/http_server.py), of its local staging manager                      *)
(* (src/presentation_manager.py) and of the presentation tools             *)
(* (src/tools/presentation_tools.py).                                      *)
(*                                                                         *)
(* The HTTP server is a plain HTTPServer: it handles one request at a      *)
(* time, and every request runs handle_mcp_request to completion inside    *)
(* asyncio.run.  One action of the model is therefore one whole request.   *)
(* The application object has no handle_request/_handle_request attribute  *)
(* (FastMCP has none), so lines 298-306 fall through to the dispatcher.    *)
(*                                                                         *)
(* Environment that the source leaves open is drawn with \E: the request,  *)
(* and at most one fault of the surroundings per request (the tool raises, *)
(* an upload raises, the scratch file cannot be allocated, ...).           *)
(***************************************************************************)
EXTENDS Integers, Sequences, FiniteSets, TLC

VARIABLES
    app,                 \* the FastMCP application object (fixed environment)
    TOOL_REGISTRY,       \* http_server.TOOL_REGISTRY: the keys in insertion order
    storage,             \* the storage backend: filename -> document or NoFile
    temp_dir,            \* PresentationManager.temp_dir: filename -> document or NoFile
    presentations,       \* ppt_mcp_server.presentations: session id -> document or NoDoc
    current_id,          \* ppt_mcp_server's current-session pointer
    presentation_files,  \* http_server._presentation_files: session id -> filename
    last,                \* what the last request was and what it answered
    first_list,          \* the names the first tools/list returned; lists so far (up to 2)
    schema_in,           \* SpecSchema: the callable handed to the schema inferrer
    schema_out,          \* SpecSchema: the schema it produced
    path_in,             \* SpecNames: a caller-supplied path, as its characters
    names_out,           \* SpecNames: the names handed to storage or bound for it
    unwrap_in,           \* SpecUnwrap: a registered callable and its wrapper chain
    unwrap_out,          \* SpecUnwrap: what the registry keeps for it
    annotation_in,       \* SpecTypes: a parameter's annotation
    types_out,           \* SpecTypes: the JSON type each strategy gives it
    template_env,        \* the template directories of the host and their files
    inflight             \* SpecOverlap: the requests in progress, step by step

(* The variables of the specifications that check one function, or the     *)
(* overlap of two requests, on its own.                                    *)
own_vars == <<unwrap_in, unwrap_out, annotation_in, types_out, inflight>>

vars == <<app, TOOL_REGISTRY, storage, temp_dir, presentations, current_id,
          presentation_files, last, first_list, schema_in, schema_out,
          path_in, names_out, template_env, own_vars>>

(***************************************************************************)
(* Bounds of the model.                                                    *)
(***************************************************************************)
MaxSlides == 1      \* a document is its slide count, 0..MaxSlides
MaxSessions == 1    \* sessions the store may hold
MaxParams == 3      \* parameters of a callable handed to the schema inferrer
MaxPathLen == 3     \* pieces of a caller-supplied path
MaxChain == 7       \* objects of a wrapper chain
MaxWrap == 2        \* subscripts around an annotation's base
MaxTemplateFiles == 2   \* files in the template directories of a host

(***************************************************************************)
(* Values.                                                                 *)
(***************************************************************************)
None == "None"            \* Python None / JSON null, where a string is expected
NoFile == -1              \* no file under that name
NoDoc == -1               \* no session under that id
Docs == 0..MaxSlides

(* A caller-supplied path: the key may be absent, null, or a string, which  *)
(* is kept as its directory part, the stem of its last component and the    *)
(* trailing extension of that component.                                    *)
PathAbsent == [kind |-> "absent", dir |-> "", stem |-> "", ext |-> ""]
PathNull == [kind |-> "null", dir |-> "", stem |-> "", ext |-> ""]
PathStr(d, s, e) == [kind |-> "str", dir |-> d, stem |-> s, ext |-> e]

FilePaths ==
    { PathStr("../x/", "a", ""), PathStr("", "a", ".pptx") }
TemplatePaths ==
    { PathStr("", "a", ""), PathStr("", "b", "") }

(* os.path.basename followed by the forced extension.                       *)
Basename(p) == [stem |-> p.stem, ext |-> p.ext]
EnsurePptx(b) ==
    IF b.ext = ".pptx" THEN b.stem \o b.ext ELSE (b.stem \o b.ext) \o ".pptx"
NormalizedName(p) == EnsurePptx(Basename(p))

(* Paths whose last component is empty or is the bare extension.            *)
SlashPaths ==
    { PathStr("x/", "", ""), PathStr("", "", ".pptx") }

Names == { NormalizedName(p) : p \in FilePaths \cup TemplatePaths \cup SlashPaths }

CallerIds == {"deck1"}
GenId(n) ==
    CASE n = 1 -> "presentation_1"
      [] n = 2 -> "presentation_2"
      [] n = 3 -> "presentation_3"
      [] OTHER -> "presentation_4"
Ids == CallerIds \cup { GenId(n) : n \in 1..(MaxSessions + 1) }
IdAbsent == "<absent>"

(***************************************************************************)
(* The storage adapter (storage_adapter.py is not part of the sources; the *)
(* capability {exists, download, upload} is taken from the specification). *)
(***************************************************************************)
presentation_exists(st, filename) == st[filename] # NoFile
download_presentation(st, tmp, filename) == [tmp EXCEPT ![filename] = st[filename]]
upload_presentation(st, doc, filename) == [st EXCEPT ![filename] = doc]

(***************************************************************************)
(* PresentationManager.                                                    *)
(***************************************************************************)
(* FinallyCleanup without the removal.                                      *)
KeepScratchFile(tmp, fname) == tmp

(* get_local_path: status "staged" (downloaded), "allocated" (a fresh path, *)
(* no file yet) or "notfound" (FileNotFoundError).                          *)
get_local_path(st, tmp, filename, create_if_missing) ==
    IF presentation_exists(st, filename)
    THEN [status |-> "staged", temp |-> download_presentation(st, tmp, filename)]
    ELSE IF create_if_missing
         THEN [status |-> "allocated", temp |-> tmp]
         ELSE [status |-> "notfound", temp |-> tmp]

save_presentation_to_storage(st, doc, filename) == upload_presentation(st, doc, filename)

(* cleanup_temp taking its else branch: the whole directory is removed.    *)
CleanupWholeDirectory(tmp, filename) == [n \in DOMAIN tmp |-> NoFile]

cleanup_temp(tmp, filename) ==
    IF tmp[filename] # NoFile THEN [tmp EXCEPT ![filename] = NoFile] ELSE tmp

(***************************************************************************)
(* The FastMCP application object.  app.tools is its tool dict in          *)
(* registration order; an entry's info is "callable" (the function         *)
(* itself), "handler" (a dict holding the function under a handler key) or *)
(* "nofunc" (an object that is neither, so no function is found).          *)
(* app.list_tools is what FastMCP's own list_tools answers: it raises, or  *)
(* returns descriptors, each with or without schema properties.            *)
(***************************************************************************)
RegisteredTools ==
    << "create_presentation", "create_presentation_from_template",
       "open_presentation", "save_presentation", "get_presentation_info",
       "add_slide", "manage_text" >>

ToolEntry(n, i) == [name |-> n, info |-> i]
FmItem(n, p) == [name |-> n, has_props |-> p]

ToolsDict(dropped) ==
    [ i \in 1..Len(RegisteredTools) |->
        ToolEntry(RegisteredTools[i],
                  IF RegisteredTools[i] \in dropped THEN "nofunc"
                  ELSE IF RegisteredTools[i] = "save_presentation" THEN "handler"
                  ELSE "callable") ]

FmList(with_props) ==
    [ i \in 1..Len(RegisteredTools) |->
        FmItem(RegisteredTools[i], RegisteredTools[i] \in with_props) ]

AllToolNames == { RegisteredTools[i] : i \in 1..Len(RegisteredTools) }

Apps ==
    { \* a tool without a function, FastMCP's list mostly without schemas
      [tools |-> ToolsDict({"get_presentation_info"}),
       list_tools |-> [kind |-> "list", items |-> FmList({"add_slide"})]],
      \* every tool resolves, FastMCP's list carries schemas
      [tools |-> ToolsDict({}),
       list_tools |-> [kind |-> "list", items |-> FmList(AllToolNames)]],
      \* a tool without a function, FastMCP's list carries schemas
      [tools |-> ToolsDict({"get_presentation_info"}),
       list_tools |-> [kind |-> "list", items |-> FmList(AllToolNames)]],
      \* no tools dict at all, list_tools raises
      [tools |-> << >>,
       list_tools |-> [kind |-> "raises", items |-> << >>]],
      \* no tools dict at all, FastMCP's list carries schemas
      [tools |-> << >>,
       list_tools |-> [kind |-> "list", items |-> FmList(AllToolNames)]] }

(***************************************************************************)
(* build_tool_registry: every entry of the tool dict whose info yields a   *)
(* function, in the dict's order.                                          *)
(***************************************************************************)
ResolveToolFunc(info) == info \in {"callable", "handler"}

SeqNames(s) == { s[i] : i \in 1..Len(s) }

build_tool_registry(a) ==
    LET kept == SelectSeq(a.tools, LAMBDA e : ResolveToolFunc(e.info))
    IN  [ i \in 1..Len(kept) |-> kept[i].name ]

RegistryKeys(reg) == SeqNames(reg)

(***************************************************************************)
(* Schema inference.  A callable is its declared parameter list (name,     *)
(* has_default), what inspect.signature does with it ("live": the declared *)
(* parameters; "hidden": a wrapper's empty parameter list; "raises":       *)
(* ValueError/TypeError), whether its source can be read and parsed, and   *)
(* whether tools/list's module map names it.                               *)
(***************************************************************************)
Param(n, d) == [name |-> n, has_default |-> d]
EmptySchema == [properties |-> << >>, required |-> << >>]

NotSelf(p) == p.name # "self"
ParamNames(ps) == [ i \in 1..Len(ps) |-> ps[i].name ]

(* _get_tool_schema with a live signature: required iff no default.         *)
SchemaFromLiveSignature(params) ==
    LET shown == SelectSeq(params, NotSelf)
    IN  [properties |-> ParamNames(shown),
         required |-> ParamNames(SelectSeq(shown, LAMBDA p : ~p.has_default))]

(* _get_tool_schema when inspect.signature raised: the signature is rebuilt *)
(* from the source, and every MockParam gets default = Parameter.empty.     *)
SchemaFromMockSignature(params) ==
    LET shown == SelectSeq(params, NotSelf)
    IN  [properties |-> ParamNames(shown), required |-> ParamNames(shown)]

get_tool_schema(f) ==
    CASE f.sig = "live" -> SchemaFromLiveSignature(f.params)
      [] f.sig = "hidden" -> EmptySchema
      [] OTHER -> IF f.src = "ok" THEN SchemaFromMockSignature(f.params) ELSE EmptySchema

(* _get_tool_schema_from_source: the positional rule over args.args.        *)
NumDefaults(params) == Cardinality({ i \in 1..Len(params) : params[i].has_default })

RECURSIVE PositionalRequired(_, _)
PositionalRequired(params, i) ==
    IF i > Len(params) THEN << >>
    ELSE LET has_default == i - 1 >= Len(params) - NumDefaults(params)
             rest == PositionalRequired(params, i + 1)
         IN  IF params[i].name = "self" \/ has_default THEN rest
             ELSE <<params[i].name>> \o rest

get_tool_schema_from_source(f) ==
    IF f.src = "ok"
    THEN [properties |-> ParamNames(SelectSeq(f.params, NotSelf)),
          required |-> PositionalRequired(f.params, 1)]
    ELSE EmptySchema

(* The per-tool part of tools/list: signature first, the source parse when  *)
(* that gave no properties and the module map names the tool, else empty.   *)
ToolSchema(f) ==
    LET s1 == get_tool_schema(f)
        s2 == IF s1.properties = << >> /\ f.in_map
              THEN get_tool_schema_from_source(f) ELSE s1
    IN  IF s2.properties = << >> THEN EmptySchema ELSE s2

(* The declared parameters of the tools (src/tools/presentation_tools.py;  *)
(* add_slide and manage_text live in a module outside the sources).  How   *)
(* each is introspected is fixed here so that every path is taken.         *)
ToolParams(name) ==
    CASE name = "create_presentation" ->
            << Param("id", TRUE), Param("file_path", TRUE), Param("title", TRUE) >>
      [] name = "create_presentation_from_template" ->
            << Param("template_path", FALSE), Param("id", TRUE) >>
      [] name = "open_presentation" ->
            << Param("file_path", FALSE), Param("id", TRUE) >>
      [] name = "save_presentation" ->
            << Param("file_path", FALSE), Param("presentation_id", TRUE) >>
      [] name = "get_presentation_info" ->
            << Param("presentation_id", TRUE) >>
      [] OTHER ->
            << Param("presentation_id", TRUE) >>

ToolCallable(name) ==
    [params |-> ToolParams(name),
     sig |-> CASE name = "open_presentation" -> "raises"
               [] name = "save_presentation" -> "hidden"
               [] name = "manage_text" -> "hidden"
               [] OTHER -> "live",
     src |-> IF name = "manage_text" THEN "unavailable" ELSE "ok",
     in_map |-> TRUE]

Descriptor(n, s) == [name |-> n, schema |-> s]

KnownTools ==
    << "create_presentation", "create_presentation_from_template", "open_presentation",
       "save_presentation", "get_presentation_info", "get_template_file_info",
       "set_core_properties", "add_slide", "get_slide_info", "extract_slide_text",
       "extract_presentation_text", "populate_placeholder", "add_bullet_points",
       "manage_text", "manage_image", "add_table", "format_table_cell", "add_shape",
       "add_chart", "update_chart_data", "apply_professional_design",
       "apply_picture_effects", "manage_fonts", "list_slide_templates",
       "apply_slide_template", "create_slide_from_template",
       "create_presentation_from_templates", "get_template_info",
       "auto_generate_presentation", "optimize_slide_text", "manage_hyperlinks",
       "add_connector", "manage_slide_masters", "manage_slide_transitions",
       "list_presentations", "list_available_presentations", "switch_presentation",
       "get_server_info" >>

(* FastMCP's list is used when it is non-empty and at least half of its     *)
(* descriptors carry schema properties.                                     *)
FastMcpTools(a) ==
    LET items == a.list_tools.items
        with_schemas == { i \in 1..Len(items) : items[i].has_props }
    IN  IF a.list_tools.kind = "list" /\ Len(items) > 0
           /\ 2 * Cardinality(with_schemas) >= Len(items)
        THEN items ELSE << >>

(* ListFromRegistry with the loop left at the first tool whose inference   *)
(* gave nothing.                                                           *)
ListUntilFailure(reg) ==
    LET failed == { i \in 1..Len(reg) : ToolSchema(ToolCallable(reg[i])) = EmptySchema }
        n == IF failed = {} THEN Len(reg)
             ELSE (CHOOSE i \in failed : \A j \in failed : i <= j) - 1
    IN  [ i \in 1..n |-> Descriptor(reg[i], ToolSchema(ToolCallable(reg[i]))) ]

ListFromRegistry(reg) ==
    [ i \in 1..Len(reg) |-> Descriptor(reg[i], ToolSchema(ToolCallable(reg[i]))) ]

ListFromKnownTools ==
    [ i \in 1..Len(KnownTools) |-> Descriptor(KnownTools[i], EmptySchema) ]

(* ListSource without the final fallback to the known tools.               *)
ListSourceWithoutKnown(a, reg) ==
    IF FastMcpTools(a) # << >> THEN "fastmcp" ELSE "registry"

(* The source of the list: "fastmcp", "registry" or "known".                *)
ListSource(a, reg) ==
    IF FastMcpTools(a) # << >> THEN "fastmcp"
    ELSE IF Len(reg) > 0 THEN "registry" ELSE "known"

(* FastMCP's descriptors are passed through; their schemas are FastMCP's    *)
(* own and are kept abstract (the declared parameters when it has any).     *)
ListFromFastMcp(a) ==
    LET items == FastMcpTools(a)
    IN  [ i \in 1..Len(items) |->
            Descriptor(items[i].name,
                       IF items[i].has_props
                       THEN SchemaFromLiveSignature(ToolParams(items[i].name))
                       ELSE EmptySchema) ]

ListedTools(a, reg) ==
    CASE ListSource(a, reg) = "fastmcp" -> ListFromFastMcp(a)
      [] ListSource(a, reg) = "registry" -> ListFromRegistry(reg)
      [] OTHER -> ListFromKnownTools

(***************************************************************************)
(* The world a request acts on, as one record.                             *)
(***************************************************************************)
World(st, tmp, pres, cur, files, env) ==
    [storage |-> st, temp |-> tmp, pres |-> pres, cur |-> cur, files |-> files,
     env |-> env]

SessionCount(pres) == Cardinality({ i \in DOMAIN pres : pres[i] # NoDoc })

(* What a tool returns: a dict.  presentation_id is None when the dict has  *)
(* no such key; error marks the tools' {"error": ...} results.              *)
Result(pid, err, slides, title_applied) ==
    [presentation_id |-> pid, error |-> err, slide_count |-> slides,
     title_applied |-> title_applied,
     download_url |-> None, filename |-> None,
     message_url |-> None,       \* the download URL the message ends with
     saved_to_disk |-> FALSE, auto_saved |-> FALSE]

ErrorResult == Result(None, TRUE, 0, FALSE)

Returned(w, res) == [raised |-> FALSE, w |-> w, result |-> res, exc |-> None]
Raised(w, exc) == [raised |-> TRUE, w |-> w, result |-> ErrorResult, exc |-> exc]

(***************************************************************************)
(* The local template directories the dispatcher searches (lines 582-588). *)
(* PPT_TEMPLATE_PATH is unset; ./templates holds b.pptx.  Storage starts   *)
(* empty, so a.pptx is absent until a call creates it.                    *)
(***************************************************************************)
EnvTemplatePath == ""
TemplateDirs ==
    << EnvTemplatePath, "/mnt/disk/presentations/templates", "/mnt/disk/templates",
       "./templates", "." >>
ExistingDirs == {"./templates", "."}
LocalFiles == { <<"./templates", "b.pptx">> }

(* The host as the template search sees it: the value of PPT_TEMPLATE_PATH *)
(* ("" when unset), the directories that exist, the files in them.         *)
TemplateEnv(ppt_template_path, existing, files) ==
    [ppt_template_path |-> ppt_template_path, existing |-> existing, files |-> files]

DefaultTemplateEnv == TemplateEnv(EnvTemplatePath, ExistingDirs, LocalFiles)

(* Lines 582-588: template_dirs. *)
template_dirs(env) == [TemplateDirs EXCEPT ![1] = env.ppt_template_path]

PathString(p) == (p.dir \o p.stem) \o p.ext

(* os.path.exists(os.path.join(template_dir, name)) *)
FileExists(env, d, name) == <<d, name>> \in env.files

(* SearchTemplateDirs with the caller's value tried before the normalized  *)
(* name.                                                                   *)
RECURSIVE SearchOriginalFirst(_, _, _, _)
SearchOriginalFirst(env, i, template_filename, template_path) ==
    IF i > Len(template_dirs(env)) THEN [found |-> FALSE, dir |-> "", name |-> ""]
    ELSE LET d == template_dirs(env)[i]
         IN  IF d # "" /\ d \in env.existing
                /\ FileExists(env, d, PathString(template_path))
             THEN [found |-> TRUE, dir |-> d, name |-> PathString(template_path)]
             ELSE IF d # "" /\ d \in env.existing
                     /\ FileExists(env, d, template_filename)
                  THEN [found |-> TRUE, dir |-> d, name |-> template_filename]
                  ELSE SearchOriginalFirst(env, i + 1, template_filename, template_path)

(* Lines 589-602: the loop over template_dirs. *)
RECURSIVE SearchTemplateDirs(_, _, _, _)
SearchTemplateDirs(env, i, template_filename, template_path) ==
    IF i > Len(template_dirs(env)) THEN [found |-> FALSE, dir |-> "", name |-> ""]
    ELSE LET d == template_dirs(env)[i]
         IN  IF d # "" /\ d \in env.existing /\ FileExists(env, d, template_filename)
             THEN [found |-> TRUE, dir |-> d, name |-> template_filename]
             ELSE IF d # "" /\ d \in env.existing
                     /\ FileExists(env, d, PathString(template_path))
                  THEN [found |-> TRUE, dir |-> d, name |-> PathString(template_path)]
                  ELSE SearchTemplateDirs(env, i + 1, template_filename, template_path)

(* The template_path argument after the rewrite: "absent", "staged" (a      *)
(* scratch copy of a stored document), "local" (a file of a template        *)
(* directory) or "raw" (passed through unresolved).                         *)
TemplateArg(kind, dir, name) == [kind |-> kind, dir |-> dir, name |-> name]
NoTemplateArg == TemplateArg("absent", "", "")

ResolveTemplate(env, st, tmp, tp) ==
    LET template_filename == NormalizedName(tp)
    IN  IF presentation_exists(st, template_filename)
        THEN [arg |-> TemplateArg("staged", "", template_filename),
              temp |-> get_local_path(st, tmp, template_filename, FALSE).temp]
        ELSE LET hit == SearchTemplateDirs(env, 1, template_filename, tp)
             IN  [arg |-> IF hit.found THEN TemplateArg("local", hit.dir, hit.name)
                          ELSE TemplateArg("raw", "", PathString(tp)),
                  temp |-> tmp]

(***************************************************************************)
(* The tools.  a is the argument mapping after the rewrite: a.local is the *)
(* staged filename standing for file_path (None when the key is absent),   *)
(* a.template the rewritten template_path.  fault is the one fault of the  *)
(* request: "tool_before"/"tool_after" (the tool raises before/after it    *)
(* changed the session), "lib" (a python-pptx helper raises inside the     *)
(* tool).                                                                   *)
(***************************************************************************)
(* NewId with the caller's id ignored.                                      *)
AlwaysGeneratedId(pres, id) == GenId(SessionCount(pres) + 1)

NewId(pres, id) == IF id = IdAbsent THEN GenId(SessionCount(pres) + 1) ELSE id

(* create_presentation with the pointer set and the session not stored.    *)
CreateWithoutStoring(w, a, fault) ==
    Returned([w EXCEPT !.cur = NewId(w.pres, a.id)],
             Result(NewId(w.pres, a.id), FALSE, 0, FALSE))

(* presentation_tools.create_presentation *)
create_presentation(w, a, fault) ==
    IF fault = "tool_before" THEN Raised(w, "tool failed")
    ELSE LET id == NewId(w.pres, a.id)
             title_applied == a.title /\ fault # "lib"
             doc == IF title_applied THEN 1 ELSE 0
             saved == a.local # None /\ fault # "lib"
         IN  Returned([w EXCEPT !.pres = [w.pres EXCEPT ![id] = doc],
                                !.cur = id,
                                !.temp = IF saved THEN [w.temp EXCEPT ![a.local] = doc]
                                         ELSE w.temp],
                      Result(id, FALSE, doc, title_applied))

(* presentation_tools.create_presentation_from_template *)
create_presentation_from_template(w, a, fault) ==
    IF a.template.kind \notin {"staged", "local"} \/ fault = "lib"
       \/ (a.template.kind = "staged" /\ w.temp[a.template.name] = NoFile)
    THEN Returned(w, ErrorResult)
    ELSE LET id == NewId(w.pres, a.id)
             doc == IF a.template.kind = "staged" THEN w.temp[a.template.name]
                    ELSE 1   \* the local template has one slide
         IN  Returned([w EXCEPT !.pres = [w.pres EXCEPT ![id] = doc]],
                      Result(id, FALSE, doc, FALSE))

(* open_presentation with the opened file rewritten as an empty document.  *)
OpenRewritesFile(w, a, fault) ==
    IF w.temp[a.local] = NoFile \/ fault = "lib"
    THEN Returned(w, ErrorResult)
    ELSE Returned([w EXCEPT !.pres = [w.pres EXCEPT ![NewId(w.pres, a.id)] = w.temp[a.local]],
                            !.temp = [w.temp EXCEPT ![a.local] = 0]],
                  Result(NewId(w.pres, a.id), FALSE, w.temp[a.local], FALSE))

(* presentation_tools.open_presentation *)
open_presentation(w, a, fault) ==
    IF w.temp[a.local] = NoFile \/ fault = "lib"
    THEN Returned(w, ErrorResult)
    ELSE LET id == NewId(w.pres, a.id)
             doc == w.temp[a.local]
         IN  Returned([w EXCEPT !.pres = [w.pres EXCEPT ![id] = doc]],
                      Result(id, FALSE, doc, FALSE))

SessionOf(w, presentation_id) ==
    IF presentation_id # IdAbsent THEN presentation_id ELSE w.cur

HasSession(w, pres_id) == pres_id # None /\ w.pres[pres_id] # NoDoc

(* presentation_tools.save_presentation *)
save_presentation(w, a, fault) ==
    LET pres_id == SessionOf(w, a.presentation_id)
    IN  IF ~HasSession(w, pres_id) \/ fault = "lib"
        THEN Returned(w, ErrorResult)
        ELSE Returned([w EXCEPT !.temp = [w.temp EXCEPT ![a.local] = w.pres[pres_id]]],
                      Result(None, FALSE, w.pres[pres_id], FALSE))

(* presentation_tools.get_presentation_info *)
get_presentation_info(w, a, fault) ==
    LET pres_id == SessionOf(w, a.presentation_id)
    IN  IF ~HasSession(w, pres_id) \/ fault = "lib"
        THEN Returned(w, ErrorResult)
        ELSE Returned(w, Result(pres_id, FALSE, w.pres[pres_id], FALSE))

(* The editing tools (content_tools is outside the sources): they change   *)
(* the session's document in place, or raise, before or after the change.  *)
EditTool(w, a, fault, added) ==
    LET pres_id == SessionOf(w, a.presentation_id)
    IN  IF ~HasSession(w, pres_id) THEN Returned(w, ErrorResult)
        ELSE IF fault = "tool_before" THEN Raised(w, "tool failed")
        ELSE LET doc == w.pres[pres_id] + added
                 w2 == [w EXCEPT !.pres = [w.pres EXCEPT ![pres_id] = doc]]
             IN  IF fault = "tool_after" THEN Raised(w2, "tool failed late")
                 ELSE Returned(w2, Result(None, FALSE, doc, FALSE))

(* The keyword parameters each tool declares, and those without a default. *)
AcceptedKeys(tool) == { ToolParams(tool)[i].name : i \in 1..Len(ToolParams(tool)) }
RequiredKeys(tool) ==
    { ToolParams(tool)[i].name :
        i \in { j \in 1..Len(ToolParams(tool)) : ~ToolParams(tool)[j].has_default } }

(* The keys of the argument mapping r. *)
ArgKeys(r) ==
    (IF r.file_path.kind # "absent" THEN {"file_path"} ELSE {})
    \cup (IF r.template_path.kind # "absent" THEN {"template_path"} ELSE {})
    \cup (IF r.id # IdAbsent THEN {"id"} ELSE {})
    \cup (IF r.presentation_id # IdAbsent THEN {"presentation_id"} ELSE {})
    \cup (IF r.title THEN {"title"} ELSE {})

(* Calling the tool with the mapping as keywords raises TypeError on an     *)
(* unexpected or a missing keyword, before the body runs.                   *)
BindsArguments(tool, r) ==
    ArgKeys(r) \subseteq AcceptedKeys(tool) /\ RequiredKeys(tool) \subseteq ArgKeys(r)

CallTool(tool, w, r, a) ==
    IF ~BindsArguments(tool, r) THEN Raised(w, "TypeError")
    ELSE CASE tool = "create_presentation" -> create_presentation(w, a, r.fault)
           [] tool = "create_presentation_from_template" ->
                  create_presentation_from_template(w, a, r.fault)
           [] tool = "open_presentation" -> open_presentation(w, a, r.fault)
           [] tool = "save_presentation" -> save_presentation(w, a, r.fault)
           [] tool = "get_presentation_info" -> get_presentation_info(w, a, r.fault)
           [] tool = "add_slide" -> EditTool(w, a, r.fault, 1)
           [] OTHER -> EditTool(w, a, r.fault, 0)

(***************************************************************************)
(* The dispatcher: MCPHTTPHandler.handle_mcp_request.                      *)
(***************************************************************************)
CodeToolNotFound == -32601
CodeInvalidParams == -32602
CodeInternalError == -32603
CodeMethodNotFound == -32601
Success == 0

(* The value http_server imported from ppt_mcp_server when it was loaded.  *)
ImportedCurrentId == None

(* CreateIfMissing with the heuristic always true.                         *)
CreateAlways(tool_name) == TRUE

(* InRegistry with the lookup always succeeding.                           *)
AnyNameResolves(reg, tool_name) == TRUE

(* RegistryAfterLookup with the entry popped by the lookup.                *)
RegistryWithoutLookedUp(reg, tool_name) ==
    SelectSeq(reg, LAMBDA n : n # tool_name)

(* ErrorEnvelope with the exception swallowed.                             *)
ExceptionSwallowed(obs, tool_name, exc) == obs

(* CreateIfMissing with the heuristic always false.                        *)
CreateNever(tool_name) == FALSE

(* 'create' in tool_name or 'add' in tool_name or 'from_template' in       *)
(* tool_name, as a table over the tool names of the model.                 *)
CreateIfMissing(tool_name) ==
    tool_name \in {"create_presentation", "create_presentation_from_template", "add_slide"}

modification_tools ==
    { "add_slide", "manage_text", "manage_image", "add_table", "format_table_cell",
      "add_shape", "add_chart", "update_chart_data", "apply_professional_design",
      "apply_picture_effects", "manage_fonts", "apply_slide_template",
      "create_slide_from_template", "populate_placeholder", "add_bullet_points",
      "manage_hyperlinks", "add_connector", "manage_slide_masters",
      "manage_slide_transitions", "optimize_slide_text" }

(* The sessions and the bindings at one moment of a request.               *)
Snapshot(pres, files) == [pres |-> pres, files |-> files]
NoSnapshot == Snapshot([i \in Ids |-> NoDoc], [i \in Ids |-> None])

(* A request: the tool name, the argument mapping (absent keys marked),     *)
(* and the fault of the surroundings during it.                             *)
Request(tool, fp, tp, id, pid, title, fault) ==
    [tool |-> tool, file_path |-> fp, template_path |-> tp, id |-> id,
     presentation_id |-> pid, title |-> title, fault |-> fault]

NoRequest == Request(None, PathAbsent, PathAbsent, IdAbsent, IdAbsent, FALSE, "none")

(* The id members of the requests; a request without one has None.  The    *)
(* discovery endpoint (GET /mcp/stream) always asks with the id 1.         *)
DefaultRequestId == "1"
RequestIds == {DefaultRequestId, "2", None}

(* A returned envelope: the id it carries, which of result and error it    *)
(* has, and the error's code.                                              *)
Envelope(request_id, code) ==
    [id |-> request_id, has_result |-> code = Success, has_error |-> code # Success,
     code |-> code]
NoEnvelope == [id |-> None, has_result |-> FALSE, has_error |-> FALSE, code |-> Success]

(* Lines 313-322: the result of initialize.                                *)
ServerInfo(protocolVersion, capabilities, name, version) ==
    [protocolVersion |-> protocolVersion, capabilities |-> capabilities,
     name |-> name, version |-> version]
NoServerInfo == ServerInfo("", {}, "", "")
InitializeResult ==
    ServerInfo("2024-11-05", {"tools"}, "office-powerpoint-mcp-server", "2.0.0")

(* What a request was and what it answered.                                *)
Observation(method) ==
    [method |-> method, tool |-> None, request |-> NoRequest,
     server_info |-> NoServerInfo,   \* the metadata an initialize returned
     request_id |-> None,        \* the id member of the request (None when it has none)
     handler_raised |-> FALSE,   \* handle_mcp_request raised instead of returning
     envelope |-> NoEnvelope,    \* the JSON-RPC envelope it returned
     fname |-> None, code |-> Success,
     msg_tool |-> None, msg_fname |-> None, msg_exc |-> None,
     looked_up |-> FALSE,        \* the name was found in the registry
     was_stored |-> FALSE,       \* storage held the file_path's name when the call came
     file_staged |-> FALSE,      \* a local file was downloaded for file_path
     materialized |-> {},        \* names the staging manager downloaded
     template_arg |-> NoTemplateArg,  \* template_path as the tool received it
     reached_invoke |-> FALSE, tool_raised |-> FALSE, tool_returned |-> FALSE,
     local_exists |-> FALSE,     \* the local file for file_path existed after the call
     partial |-> FALSE,          \* the tool changed the sessions, then raised
     left |-> NoSnapshot,        \* sessions and bindings as a raising tool left them
     upload_failed |-> "none",   \* "save", "auto" or "reupload"
     alloc_failed |-> FALSE, serialize_failed |-> FALSE,
     autosave_tmp |-> "none",    \* "removed" or "left"
     uploaded |-> {},            \* names uploaded to storage
     result |-> ErrorResult,
     listed |-> << >>]

(* The envelope is built from request_id at every return of the handler.   *)
Sealed(obs, request_id) ==
    [obs EXCEPT !.request_id = request_id, !.envelope = Envelope(request_id, obs.code)]

(* Lines 540-566: the file_path argument.                                  *)
StageFilePath(w, tool_name, fp) ==
    IF fp.kind = "absent"
    THEN [status |-> "none", fname |-> None, temp |-> w.temp, stored |-> FALSE]
    ELSE IF fp.kind = "null"
    THEN [status |-> "typeerror", fname |-> None, temp |-> w.temp, stored |-> FALSE]
    ELSE LET filename_base == NormalizedName(fp)
             got == get_local_path(w.storage, w.temp, filename_base,
                                   CreateIfMissing(tool_name))
         IN  [status |-> got.status, fname |-> filename_base, temp |-> got.temp,
              stored |-> w.storage[filename_base] # NoFile]

(* Lines 568-606: the template_path argument.                              *)
StageTemplate(env, st, tmp, tp) ==
    IF tp.kind = "absent"
    THEN [status |-> "none", arg |-> NoTemplateArg, temp |-> tmp]
    ELSE IF tp.kind = "null"
    THEN [status |-> "typeerror", arg |-> NoTemplateArg, temp |-> tmp]
    ELSE LET t == ResolveTemplate(env, st, tmp, tp)
         IN  [status |-> "ok", arg |-> t.arg, temp |-> t.temp]

(* Lines 616-634: the session-to-filename binding.                         *)
TrackBinding(files, res, filename_base) ==
    IF res.presentation_id # None /\ filename_base # None
    THEN [files EXCEPT ![res.presentation_id] = filename_base]
    ELSE files

LocalExists(tmp, fname) == fname # None /\ tmp[fname] # NoFile

(* A step of the post-processing: the world, the result, whether it raised *)
(* out of the step, and what it noted.                                     *)
Step(w, res, exc, note) == [w |-> w, result |-> res, exc |-> exc, note |-> note]
NoNote ==
    [upload_failed |-> "none", alloc_failed |-> FALSE, serialize_failed |-> FALSE,
     autosave_tmp |-> "none", uploaded |-> {}, exc |-> None]

(* Lines 637-645 and 723-731: the name an upload goes under, recomputed    *)
(* from the caller's file_path (from the rewritten argument when that is   *)
(* the empty string); None when the basename is empty, and then nothing is *)
(* uploaded.                                                               *)
UploadTarget(fp, fname) ==
    IF fp.kind # "str" \/ PathString(fp) = "" THEN fname
    ELSE IF (fp.stem \o fp.ext) = "" THEN None
    ELSE EnsurePptx(Basename(fp))

(* Lines 635-670: the explicit save.                                       *)
SaveStep(tool_name, w, res, fname, target, fault) ==
    IF tool_name = "save_presentation" /\ LocalExists(w.temp, fname) /\ target # None
    THEN IF fault = "upload"
         THEN Step(w, res, TRUE, [NoNote EXCEPT !.upload_failed = "save",
                                                !.exc = "upload failed"])
         ELSE Step([w EXCEPT !.storage =
                        save_presentation_to_storage(w.storage, w.temp[fname], target),
                             !.files = IF res.presentation_id # None
                                       THEN [w.files EXCEPT ![res.presentation_id] = target]
                                       ELSE w.files],
                   [res EXCEPT !.download_url = target, !.filename = target,
                               !.message_url = target, !.saved_to_disk = TRUE],
                   FALSE, [NoNote EXCEPT !.uploaded = {target}])
    ELSE Step(w, res, FALSE, NoNote)

(* AutoSaveStep with the auto-save left out.                               *)
AutoSaveSkipped(tool_name, w, res, presentation_id, fault) ==
    Step(w, res, FALSE, NoNote)

(* Lines 672-719: the auto-save of the allow-listed tools.                 *)
AutoSaveStep(tool_name, w, res, presentation_id, fault) ==
    LET pres_id == IF presentation_id # IdAbsent THEN presentation_id
                   ELSE ImportedCurrentId
    IN  IF tool_name \in modification_tools /\ pres_id # None
           /\ w.files[pres_id] # None /\ w.pres[pres_id] # NoDoc
        THEN LET auto_save_filename == w.files[pres_id]
             IN  IF fault = "alloc"
                 THEN Step(w, res, TRUE, [NoNote EXCEPT !.alloc_failed = TRUE,
                                                        !.exc = "no scratch file"])
                 ELSE IF fault = "serialize"
                 THEN Step(w, res, FALSE, [NoNote EXCEPT !.serialize_failed = TRUE,
                                                         !.autosave_tmp = "removed"])
                 ELSE IF fault = "upload"
                 THEN Step(w, res, FALSE, [NoNote EXCEPT !.upload_failed = "auto",
                                                         !.autosave_tmp = "removed"])
                 ELSE Step([w EXCEPT !.storage =
                                save_presentation_to_storage(w.storage, w.pres[pres_id],
                                                             auto_save_filename)],
                           [res EXCEPT !.download_url =
                                           IF res.download_url = None
                                           THEN auto_save_filename ELSE res.download_url,
                                       !.filename = auto_save_filename,
                                       !.message_url = auto_save_filename,
                                       !.auto_saved = TRUE],
                           FALSE, [NoNote EXCEPT !.autosave_tmp = "removed",
                                                 !.uploaded = {auto_save_filename}])
        ELSE Step(w, res, FALSE, NoNote)

(* Lines 721-741: the upload of a rewritten file_path.                     *)
ReuploadStep(tool_name, w, res, fname, target, fault) ==
    IF LocalExists(w.temp, fname) /\ tool_name # "save_presentation" /\ target # None
    THEN IF fault = "upload"
         THEN Step(w, res, TRUE, [NoNote EXCEPT !.upload_failed = "reupload",
                                                !.exc = "upload failed"])
         ELSE Step([w EXCEPT !.storage =
                        save_presentation_to_storage(w.storage, w.temp[fname], target)],
                   [res EXCEPT !.download_url = target,
                               !.message_url = IF res.error THEN @ ELSE target],
                   FALSE, [NoNote EXCEPT !.uploaded = {target}])
    ELSE Step(w, res, FALSE, NoNote)

MergeNotes(n1, n2) ==
    [upload_failed |-> IF n2.upload_failed # "none" THEN n2.upload_failed ELSE n1.upload_failed,
     alloc_failed |-> n1.alloc_failed \/ n2.alloc_failed,
     serialize_failed |-> n1.serialize_failed \/ n2.serialize_failed,
     autosave_tmp |-> IF n2.autosave_tmp # "none" THEN n2.autosave_tmp ELSE n1.autosave_tmp,
     uploaded |-> n1.uploaded \cup n2.uploaded,
     exc |-> IF n2.exc # None THEN n2.exc ELSE n1.exc]

(* Lines 616-741 in order; an exception leaves the later steps out.        *)
Merged(note, t) == Step(t.w, t.result, t.exc, MergeNotes(note, t.note))

ThenAutoSave(tool_name, s, r) ==
    IF s.exc THEN s
    ELSE Merged(s.note, AutoSaveStep(tool_name, s.w, s.result, r.presentation_id, r.fault))

ThenReupload(tool_name, s, fname, r) ==
    IF s.exc THEN s
    ELSE Merged(s.note, ReuploadStep(tool_name, s.w, s.result, fname,
                                     UploadTarget(r.file_path, fname), r.fault))

PostProcess(tool_name, w, res, fname, r) ==
    ThenReupload(tool_name,
        ThenAutoSave(tool_name,
            SaveStep(tool_name, [w EXCEPT !.files = TrackBinding(w.files, res, fname)],
                     res, fname, UploadTarget(r.file_path, fname), r.fault),
            r),
        fname, r)

(* Lines 761-764: the finally clause.                                      *)
FinallyCleanup(tmp, fname) ==
    IF LocalExists(tmp, fname) THEN cleanup_temp(tmp, fname) ELSE tmp

Answer(w, obs) == [w |-> w, obs |-> obs]

(* Line 519: the lookup of the name.                                       *)
InRegistry(reg, tool_name) == tool_name \in RegistryKeys(reg)

(* The registry after the lookup of line 529, which only reads it.         *)
RegistryAfterLookup(reg, tool_name) == reg

(* Lines 750-760: the except clause answers with the internal-error        *)
(* envelope, whose message names the tool and carries the exception's.     *)
ErrorEnvelope(obs, tool_name, exc) ==
    [obs EXCEPT !.code = CodeInternalError, !.msg_tool = tool_name, !.msg_exc = exc]

(* Lines 789-799: the outer except clause; the message is the exception's. *)
OuterErrorEnvelope(obs, exc) ==
    [obs EXCEPT !.code = CodeInternalError, !.msg_exc = exc]

(* Lines 608-777: the call, the post-processing, the finally clause and    *)
(* the envelope.                                                           *)
Arguments(r, fname, template) ==
    [local |-> fname, template |-> template, id |-> r.id,
     presentation_id |-> r.presentation_id, title |-> r.title]

Invoked(obs, w, c) ==
    [obs EXCEPT !.reached_invoke = TRUE, !.tool_raised = c.raised,
                !.tool_returned = ~c.raised,
                !.local_exists = LocalExists(c.w.temp, obs.fname),
                !.partial = c.raised /\ c.w.pres # w.pres,
                !.left = IF c.raised THEN Snapshot(c.w.pres, c.w.files) ELSE NoSnapshot]

Noted(obs, note) ==
    [obs EXCEPT !.upload_failed = note.upload_failed, !.alloc_failed = note.alloc_failed,
                !.serialize_failed = note.serialize_failed,
                !.autosave_tmp = note.autosave_tmp, !.uploaded = note.uploaded]

Cleaned(w, fname) == [w EXCEPT !.temp = FinallyCleanup(w.temp, fname)]

AfterPostProcess(r, fname, obs, p) ==
    IF p.exc
    THEN Answer(Cleaned(p.w, fname), ErrorEnvelope(Noted(obs, p.note), r.tool, p.note.exc))
    ELSE Answer(Cleaned(p.w, fname),
                [Noted(obs, p.note) EXCEPT !.code = Success, !.result = p.result])

AfterCall(w, r, fname, obs, c) ==
    IF c.raised
    THEN Answer(Cleaned(c.w, fname), ErrorEnvelope(Invoked(obs, w, c), r.tool, c.exc))
    ELSE AfterPostProcess(r, fname, Invoked(obs, w, c),
                          PostProcess(r.tool, c.w, c.result, fname, r))

InvokeAndRespond(w, r, fname, template, obs) ==
    AfterCall(w, r, fname, obs, CallTool(r.tool, w, r, Arguments(r, fname, template)))

(* Lines 568-606, then the call.                                           *)
AfterTemplateStage(w, r, fname, obs, t) ==
    IF t.status = "typeerror"
    THEN Answer([w EXCEPT !.temp = t.temp], OuterErrorEnvelope(obs, "TypeError"))
    ELSE InvokeAndRespond([w EXCEPT !.temp = t.temp], r, fname, t.arg,
                          [obs EXCEPT !.template_arg = t.arg,
                                      !.materialized =
                               IF t.arg.kind = "staged" THEN @ \cup {t.arg.name} ELSE @])

(* Lines 540-566, then the template.                                       *)
Staged(obs, f) ==
    [obs EXCEPT !.looked_up = TRUE, !.fname = f.fname, !.was_stored = f.stored,
                !.file_staged = (f.status = "staged"),
                !.materialized = IF f.status = "staged" THEN {f.fname} ELSE {}]

AfterFileStage(w, r, obs, f) ==
    CASE f.status = "typeerror" -> Answer(w, OuterErrorEnvelope(Staged(obs, f), "TypeError"))
      [] f.status = "notfound" ->
             Answer(w, [Staged(obs, f) EXCEPT !.code = CodeInvalidParams,
                                              !.msg_fname = f.fname])
      [] OTHER -> AfterTemplateStage(w, r, f.fname, Staged(obs, f),
                                     StageTemplate(w.env, w.storage, f.temp, r.template_path))

(* Lines 514-777: tools/call.                                              *)
HandleToolsCall(w, reg, r) ==
    IF ~InRegistry(reg, r.tool)
    THEN Answer(w, [Observation("tools/call") EXCEPT !.tool = r.tool, !.request = r,
                                                     !.code = CodeToolNotFound])
    ELSE AfterFileStage(w, r, [Observation("tools/call") EXCEPT !.tool = r.tool,
                                                                !.request = r],
                        StageFilePath(w, r.tool, r.file_path))

(***************************************************************************)
(* The requests of the model.  A fault is drawn only where the request can *)
(* meet it: a helper of the tool only when the tool has something to do,   *)
(* an upload or the auto-save only when a document is named.               *)
(***************************************************************************)
PathArgs(S) == {PathAbsent, PathNull} \cup S
IdArgs == {IdAbsent} \cup CallerIds
SessionArgs == {IdAbsent, "deck1", "presentation_1"}
EditTools == {"add_slide", "manage_text"}

IsStr(p) == p.kind = "str"

CreateRequests ==
    { r \in { Request("create_presentation", fp, PathAbsent, id, IdAbsent, t, f) :
                fp \in PathArgs(FilePaths), id \in IdArgs, t \in BOOLEAN,
                f \in {"none", "tool_before", "lib", "upload"} } :
        /\ r.fault = "upload" => IsStr(r.file_path)
        /\ r.fault = "lib" => (IsStr(r.file_path) \/ r.title)
        /\ r.fault = "tool_before" => (r.id = IdAbsent /\ ~r.title) }

TemplateRequests ==
    { r \in { Request("create_presentation_from_template", PathAbsent, tp, id,
                      IdAbsent, FALSE, f) :
                tp \in PathArgs(TemplatePaths), id \in IdArgs, f \in {"none", "lib"} } :
        r.fault = "lib" => IsStr(r.template_path) }

OpenRequests ==
    { r \in { Request("open_presentation", fp, PathAbsent, id, IdAbsent, FALSE, f) :
                fp \in PathArgs(FilePaths), id \in IdArgs,
                f \in {"none", "lib", "upload"} } :
        r.fault # "none" => IsStr(r.file_path) }

SaveRequests ==
    { r \in { Request("save_presentation", fp, PathAbsent, IdAbsent, pid, FALSE, f) :
                fp \in PathArgs(FilePaths), pid \in SessionArgs,
                f \in {"none", "lib", "upload"} } :
        r.fault # "none" => IsStr(r.file_path) }

InfoRequests ==
    { Request("get_presentation_info", PathAbsent, PathAbsent, IdAbsent, pid, FALSE, f) :
        pid \in SessionArgs, f \in {"none", "lib"} }

EditRequests ==
    { r \in { Request(tool, PathAbsent, PathAbsent, IdAbsent, pid, FALSE, f) :
                tool \in EditTools, pid \in SessionArgs,
                f \in {"none", "tool_before", "tool_after", "alloc", "serialize",
                       "upload"} } :
        r.fault \in {"alloc", "serialize", "upload"} => r.presentation_id # IdAbsent }

(* Calls that carry path keys the tool does not declare.                   *)
PathRequests ==
    { r \in { Request(tool, fp, tp, IdAbsent, IdAbsent, FALSE, "none") :
                tool \in {"add_slide", "get_presentation_info"},
                fp \in PathArgs(FilePaths), tp \in PathArgs(TemplatePaths) } :
        ~(ArgKeys(r) \subseteq AcceptedKeys(r.tool)) }

UnknownToolRequests ==
    { Request(tool, fp, PathAbsent, IdAbsent, IdAbsent, FALSE, "none") :
        tool \in {"not_a_tool", None}, fp \in {PathAbsent, PathStr("", "a", ".pptx")} }

Requests ==
    CreateRequests \cup TemplateRequests \cup OpenRequests \cup SaveRequests
    \cup InfoRequests \cup EditRequests \cup PathRequests \cup UnknownToolRequests

(* Calls without path keys and without faults.                             *)
PlainRequests == { r \in Requests : ArgKeys(r) \subseteq {"id", "presentation_id"}
                                     /\ r.fault = "none" }

(* The bounds of the model: sessions and slides.                           *)
WithinBounds(w) ==
    /\ SessionCount(w.pres) <= MaxSessions
    /\ \A i \in DOMAIN w.pres : w.pres[i] <= MaxSlides

(***************************************************************************)
(* The state machine.                                                      *)
(***************************************************************************)
TheWorld ==
    World(storage, temp_dir, presentations, current_id, presentation_files, template_env)

NoCallable == [params |-> << >>, sig |-> "live", src |-> "ok", in_map |-> FALSE]

(***************************************************************************)
(* The unwrap loop of build_tool_registry.  A registered callable is the   *)
(* first of a chain of objects 1..len, each but the last holding the next  *)
(* in a wrapper attribute (__wrapped__, _func, func or __func__); the last *)
(* has no such attribute ("plain"), or refers to itself ("self") or back   *)
(* to the first ("first").  not_callable are the objects of the chain that *)
(* callable() rejects.                                                     *)
(***************************************************************************)
Chain(len, tail, not_callable) == [len |-> len, tail |-> tail, not_callable |-> not_callable]
NoChain == Chain(1, "plain", {})
NoObject == 0

(* tool_func.__wrapped__ / ._func / .func / .__func__, or NoObject when    *)
(* hasattr finds none of them.                                             *)
WrappedBy(c, tool_func) ==
    IF tool_func < c.len THEN tool_func + 1
    ELSE CASE c.tail = "self" -> tool_func
           [] c.tail = "first" -> 1
           [] OTHER -> NoObject

max_unwrap == 5

(* The while loop of lines 168-182. *)
RECURSIVE UnwrapLoop(_, _, _)
UnwrapLoop(c, tool_func, unwrap_attempts) ==
    IF unwrap_attempts < max_unwrap /\ WrappedBy(c, tool_func) # NoObject
    THEN UnwrapLoop(c, WrappedBy(c, tool_func), unwrap_attempts + 1)
    ELSE [tool_func |-> tool_func, unwrap_attempts |-> unwrap_attempts]

(* Lines 164-188: what tools_map gets for the tool.  original_func is the  *)
(* object 1.                                                               *)
Unwrapped(kept, attempts, exhausted) ==
    [kept |-> kept, attempts |-> attempts, exhausted |-> exhausted]
NoUnwrap == Unwrapped(NoObject, 0, FALSE)

UnwrapRegistered(c) ==
    LET r == UnwrapLoop(c, 1, 0)
    IN  Unwrapped(IF r.tool_func \in c.not_callable THEN 1 ELSE r.tool_func,
                  r.unwrap_attempts,
                  r.unwrap_attempts = max_unwrap /\ WrappedBy(c, r.tool_func) # NoObject)

(***************************************************************************)
(* The type table of the two inference strategies.  An annotation is a     *)
(* base (a type name, "unannotated", or the constant None) under at most   *)
(* MaxWrap subscripts Optional[...] / List[...], outermost first.          *)
(***************************************************************************)
Annotation(wrap, base) == [wrap |-> wrap, base |-> base]
NoAnnotation == Annotation(<< >>, "unannotated")

(* Lines 1250-1267: the table over type objects. *)
TypeObjectTable(t) ==
    CASE t = "str" -> "string"
      [] t = "int" -> "integer"
      [] t = "float" -> "number"
      [] t = "bool" -> "boolean"
      [] t = "list" -> "array"
      [] t = "dict" -> "object"
      [] OTHER -> "string"

(* typing flattens Optional[Optional[T]] into Optional[T]. *)
RECURSIVE StripOptional(_)
StripOptional(wrap) ==
    IF wrap # << >> /\ Head(wrap) = "Optional" THEN StripOptional(Tail(wrap)) ELSE wrap

(* str(param_type) of a typing.List[...] alias contains 'list' only when a *)
(* type argument does: "typing.List[list]".                                *)
ReprContainsList(wrap, base) ==
    wrap # << >> /\ base = "list"

(* Lines 1211-1267 on the annotation object of a live signature: a Union   *)
(* gives its first member that is not NoneType; an alias whose origin is   *)
(* list, met before any Union, becomes list; what is left goes through the *)
(* table, where an alias is an array only by its repr.                     *)
SignatureType(an) ==
    IF an.base \in {"unannotated", "None"} THEN "string"
    ELSE IF an.wrap = << >> THEN TypeObjectTable(an.base)
    ELSE IF Head(an.wrap) = "List" THEN "array"
    ELSE LET inner == StripOptional(an.wrap)
         IN  IF inner = << >> THEN TypeObjectTable(an.base)
             ELSE IF ReprContainsList(inner, an.base) THEN "array" ELSE "string"

(* Lines 994-1008: the table over ast.Name. *)
NameTable(type_name) ==
    CASE type_name = "int" -> "integer"
      [] type_name = "float" -> "number"
      [] type_name = "bool" -> "boolean"
      [] type_name = "str" -> "string"
      [] type_name = "list" -> "array"
      [] type_name = "dict" -> "object"
      [] OTHER -> "string"

(* Lines 1025-1037: the table over the inner name of Optional[...]. *)
OptionalInnerTable(inner_type) ==
    CASE inner_type = "int" -> "integer"
      [] inner_type = "float" -> "number"
      [] inner_type = "bool" -> "boolean"
      [] inner_type = "str" -> "string"
      [] inner_type = "list" -> "array"
      [] OTHER -> "string"

(* Lines 989-1043 on the annotation's syntax node. *)
SourceType(an) ==
    IF an.base = "unannotated" THEN "string"
    ELSE IF an.wrap = << >>
    THEN (IF an.base = "None" THEN "string" ELSE NameTable(an.base))
    ELSE IF Head(an.wrap) = "Optional"
    THEN OptionalInnerTable(IF Len(an.wrap) = 1 THEN an.base ELSE "str")
    ELSE "string"

JsonTypes(signature, source) == [signature |-> signature, source |-> source]
NoTypes == JsonTypes("string", "string")

(* No request is in progress. *)
NoOverlap == << >>

InitInputs(p, c, an, env, fl) ==
    /\ path_in = p
    /\ unwrap_in = c
    /\ annotation_in = an
    /\ template_env = env
    /\ inflight = fl

InitCore(a, st, f) ==
    /\ app = a
    /\ TOOL_REGISTRY = build_tool_registry(app)
    /\ storage = st
    /\ temp_dir = [n \in Names |-> NoFile]
    /\ presentations = [i \in Ids |-> NoDoc]
    /\ current_id = None
    /\ presentation_files = [i \in Ids |-> None]
    /\ last = Observation("start")
    /\ first_list = [count |-> 0, names |-> << >>]
    /\ schema_in = f
    /\ schema_out = EmptySchema
    /\ names_out = {}
    /\ unwrap_out = NoUnwrap
    /\ types_out = NoTypes

InitWith(a, st, f) ==
    /\ InitCore(a, st, f)
    /\ InitInputs(<< >>, NoChain, NoAnnotation, DefaultTemplateEnv, NoOverlap)

DefaultApp ==
    [tools |-> ToolsDict({}),
     list_tools |-> [kind |-> "list", items |-> FmList(AllToolNames)]]

EmptyStorage == [n \in Names |-> NoFile]

Init == InitWith(DefaultApp, EmptyStorage, NoCallable)

SetWorld(w) ==
    /\ storage' = w.storage
    /\ temp_dir' = w.temp
    /\ presentations' = w.pres
    /\ current_id' = w.cur
    /\ presentation_files' = w.files

(* method == 'initialize' *)
InitializeWith(ids) ==
    /\ \E id \in ids :
           last' = Sealed([Observation("initialize") EXCEPT
                               !.server_info = InitializeResult], id)
    /\ UNCHANGED <<app, TOOL_REGISTRY, storage, temp_dir, presentations, current_id,
                   presentation_files, first_list, schema_in, schema_out,
                   path_in, names_out, template_env, own_vars>>

DescriptorNames(ds) == [ i \in 1..Len(ds) |-> ds[i].name ]

(* RegistryAfterList with the registry emptied by the listing.             *)
RegistryClearedByList(reg) == << >>

(* The registry after tools/list, which only iterates over it (line 436).  *)
RegistryAfterList(reg) == reg

(* method == 'tools/list'; remember says whether the run keeps the names  *)
(* of its first list for comparison with later ones.                       *)
ToolsListStep(remember, ids) ==
    LET tools == ListedTools(app, TOOL_REGISTRY)
    IN  /\ \E id \in ids :
               last' = Sealed([Observation("tools/list") EXCEPT !.listed = tools], id)
        /\ first_list' = IF ~remember THEN first_list
                         ELSE IF first_list.count = 0
                         THEN [count |-> 1, names |-> DescriptorNames(tools)]
                         ELSE [first_list EXCEPT !.count = 2]
        /\ TOOL_REGISTRY' = RegistryAfterList(TOOL_REGISTRY)
        /\ UNCHANGED <<app, storage, temp_dir, presentations,
                       current_id, presentation_files, schema_in, schema_out,
                   path_in, names_out, template_env, own_vars>>

(* method == 'tools/call' *)
Respond(ans, r, id) ==
    /\ WithinBounds(ans.w)
    /\ SetWorld(ans.w)
    /\ last' = Sealed(ans.obs, id)
    /\ TOOL_REGISTRY' = IF ans.obs.looked_up
                        THEN RegistryAfterLookup(TOOL_REGISTRY, r.tool)
                        ELSE TOOL_REGISTRY
    /\ UNCHANGED <<app, first_list, schema_in, schema_out,
                   path_in, names_out, template_env, own_vars>>

ToolsCallOver(requests, ids) ==
    \E r \in requests, id \in ids :
        Respond(HandleToolsCall(TheWorld, TOOL_REGISTRY, r), r, id)

(* Any other method.                                                       *)
UnknownMethodWith(ids) ==
    /\ \E id \in ids :
           last' = Sealed([Observation("other") EXCEPT !.code = CodeMethodNotFound], id)
    /\ UNCHANGED <<app, TOOL_REGISTRY, storage, temp_dir, presentations, current_id,
                   presentation_files, first_list, schema_in, schema_out,
                   path_in, names_out, template_env, own_vars>>

(* GET /presentations/<name>: serve_presentation.  The codes are the HTTP  *)
(* statuses; "send" is a failure while the response is written.            *)
ServePresentation ==
    \E p \in FilePaths, fault \in {"none", "send"} :
        LET filename == NormalizedName(p)
            base == [Observation("GET") EXCEPT !.fname = filename]
        IN  /\ UNCHANGED <<app, TOOL_REGISTRY, storage, presentations, current_id,
                           presentation_files, first_list, schema_in, schema_out,
                   path_in, names_out, template_env, own_vars>>
            /\ IF ~presentation_exists(storage, filename)
               THEN /\ temp_dir' = temp_dir
                    /\ last' = [base EXCEPT !.code = 404]
               ELSE LET got == get_local_path(storage, temp_dir, filename, FALSE)
                    IN  IF fault = "send"
                        THEN /\ temp_dir' = got.temp
                             /\ last' = [base EXCEPT !.code = 500,
                                                     !.materialized = {filename}]
                        ELSE /\ temp_dir' = cleanup_temp(got.temp, filename)
                             /\ last' = [base EXCEPT !.code = 200,
                                                     !.materialized = {filename}]

DefaultIds == {DefaultRequestId}

Initialize == InitializeWith(DefaultIds)
ToolsCall == ToolsCallOver(Requests, DefaultIds)
ToolsList == ToolsListStep(FALSE, DefaultIds)
UnknownMethod == UnknownMethodWith(DefaultIds)

Next ==
    \/ Initialize
    \/ ToolsList
    \/ ToolsCall
    \/ UnknownMethod
    \/ ServePresentation

Spec == Init /\ [][Next]_vars

(* The server under every application of Apps, with a stored a.pptx and    *)
(* with calls that name no document.                                       *)
StoredDeck == [n \in Names |-> IF n = "a.pptx" THEN 1 ELSE NoFile]

InitApps == \E a \in Apps : InitWith(a, StoredDeck, NoCallable)

ToolsCallPlain == ToolsCallOver(PlainRequests, DefaultIds)
ToolsListRemembered == ToolsListStep(TRUE, DefaultIds)

NextApps ==
    \/ Initialize
    \/ ToolsListRemembered
    \/ ToolsCallPlain
    \/ UnknownMethod
    \/ ServePresentation

SpecApps == InitApps /\ [][NextApps]_vars

(***************************************************************************)
(* The server under calls whose file_path has an empty last component      *)
(* ("x/") or is the bare extension (".pptx"); both name the document       *)
(* .pptx.                                                                  *)
(***************************************************************************)
SlashRequests ==
    { r \in { Request(tool, fp, PathAbsent, id, pid, t, f) :
                tool \in {"create_presentation", "open_presentation",
                          "save_presentation"},
                fp \in SlashPaths, id \in IdArgs, pid \in {IdAbsent, "deck1"},
                t \in BOOLEAN, f \in {"none", "lib", "upload"} } :
        BindsArguments(r.tool, r) }

ToolsCallSlash == ToolsCallOver(SlashRequests \cup InfoRequests, DefaultIds)

NextPaths ==
    \/ Initialize
    \/ ToolsList
    \/ ToolsCallSlash
    \/ UnknownMethod
    \/ ServePresentation

SpecPaths == Init /\ [][NextPaths]_vars

(***************************************************************************)
(* The server under callers that choose an id of the generated form,       *)
(* presentation_<n>, next to calls that leave the id out.                  *)
(***************************************************************************)
GeneratedFormIds == { GenId(MaxSessions + 1) }

SessionOpeningRequests ==
    { Request("create_presentation", fp, PathAbsent, id, IdAbsent, t, "none") :
        fp \in {PathAbsent, PathStr("", "a", ".pptx")},
        id \in {IdAbsent} \cup GeneratedFormIds, t \in BOOLEAN }
    \cup { Request("open_presentation", PathStr("", "a", ".pptx"), PathAbsent, id,
                   IdAbsent, FALSE, "none") :
             id \in {IdAbsent} \cup GeneratedFormIds }
    \cup { Request("create_presentation_from_template", PathAbsent, tp, id, IdAbsent,
                   FALSE, "none") :
             tp \in TemplatePaths, id \in {IdAbsent} \cup GeneratedFormIds }

ToolsCallOpening == ToolsCallOver(SessionOpeningRequests \cup InfoRequests, DefaultIds)

NextIds ==
    \/ Initialize
    \/ ToolsList
    \/ ToolsCallOpening
    \/ UnknownMethod
    \/ ServePresentation

SpecIds == Init /\ [][NextIds]_vars

(***************************************************************************)
(* The server on every host of the model: PPT_TEMPLATE_PATH set or not, up *)
(* to MaxTemplateFiles files named a.pptx or a spread over the candidate   *)
(* directories, and a.pptx in storage or not.  A directory exists when it  *)
(* holds a file; the working directory always exists.                      *)
(***************************************************************************)
ConfiguredTemplatePath == "/env/templates"

HostFiles ==
    { <<d, n>> : d \in {ConfiguredTemplatePath} \cup SeqNames(Tail(TemplateDirs)),
                 n \in {"a.pptx", "a"} }

TemplateEnvs ==
    { TemplateEnv(tpath, {"."} \cup { f[1] : f \in files }, files) :
        tpath \in {EnvTemplatePath, ConfiguredTemplatePath},
        files \in { fs \in SUBSET HostFiles : Cardinality(fs) <= MaxTemplateFiles } }

InitTemplates ==
    /\ \E st \in {EmptyStorage, StoredDeck} : InitCore(DefaultApp, st, NoCallable)
    /\ \E env \in TemplateEnvs : InitInputs(<< >>, NoChain, NoAnnotation, env, NoOverlap)

ToolsCallTemplate == ToolsCallOver(TemplateRequests, DefaultIds)

NextTemplates ==
    \/ Initialize
    \/ ToolsList
    \/ ToolsCallTemplate
    \/ UnknownMethod
    \/ ServePresentation

SpecTemplates == InitTemplates /\ [][NextTemplates]_vars

(***************************************************************************)
(* The server under every request value the transport hands over: do_POST  *)
(* passes whatever json.loads returned, so the value may be no object at   *)
(* all, and params and arguments may be null.                              *)
(***************************************************************************)
PostedValue(value, method, params, arguments, tool) ==
    [value |-> value, method |-> method, params |-> params, arguments |-> arguments,
     tool |-> tool]

PostedValues ==
    { PostedValue(v, "tools/call", "object", "object", None) :
        v \in {"array", "string", "number", "null"} }
    \cup { PostedValue("object", m, "null", "object", None) :
             m \in {"initialize", "tools/call", "other"} }
    \cup { PostedValue("object", "tools/call", "object", "null", t) :
             t \in {"create_presentation", "not_a_tool"} }

(* Lines 293-295 read the request with .get outside the try of line 308;   *)
(* line 515 reads params with .get and line 540 tests membership in        *)
(* arguments, both inside it.                                              *)
HandlePostedValue(reg, q) ==
    IF q.value # "object"
    THEN [Observation("none") EXCEPT !.handler_raised = TRUE]
    ELSE IF q.method = "initialize"
    THEN [Observation("initialize") EXCEPT !.server_info = InitializeResult]
    ELSE IF q.method # "tools/call"
    THEN [Observation("other") EXCEPT !.code = CodeMethodNotFound]
    ELSE IF q.params = "null"
    THEN OuterErrorEnvelope(Observation("tools/call"), "AttributeError")
    ELSE IF ~InRegistry(reg, q.tool)
    THEN [Observation("tools/call") EXCEPT !.tool = q.tool, !.code = CodeToolNotFound]
    ELSE OuterErrorEnvelope([Observation("tools/call") EXCEPT !.tool = q.tool,
                                                              !.looked_up = TRUE],
                            "TypeError")

(* A handler that raised returned no envelope. *)
PostValue ==
    /\ \E q \in PostedValues, id \in RequestIds :
           LET obs == HandlePostedValue(TOOL_REGISTRY, q)
           IN  last' = IF obs.handler_raised THEN obs ELSE Sealed(obs, id)
    /\ UNCHANGED <<app, TOOL_REGISTRY, storage, temp_dir, presentations, current_id,
                   presentation_files, first_list, schema_in, schema_out,
                   path_in, names_out, template_env, own_vars>>

InitializeAny == InitializeWith(RequestIds)
ToolsListAny == ToolsListStep(FALSE, RequestIds)
(* Calls that end in each kind of answer: a result, -32601, -32602, -32603. *)
ValueRequests == CreateRequests \cup OpenRequests \cup UnknownToolRequests

ToolsCallAny == ToolsCallOver(ValueRequests, RequestIds)
UnknownMethodAny == UnknownMethodWith(RequestIds)

NextValues ==
    \/ InitializeAny
    \/ ToolsListAny
    \/ ToolsCallAny
    \/ UnknownMethodAny
    \/ ServePresentation
    \/ PostValue

SpecValues == Init /\ [][NextValues]_vars

(***************************************************************************)
(* The schema inferrer on its own: a callable with up to MaxParams         *)
(* parameters (a leading self or not, defaults on a suffix of the list, as *)
(* Python requires), introspected in every way.                            *)
(***************************************************************************)
ParamName(i) ==
    CASE i = 1 -> "a" [] i = 2 -> "b" [] i = 3 -> "c" [] i = 4 -> "d" [] OTHER -> "e"

DeclaredParams(n, k, with_self) ==
    (IF with_self THEN << Param("self", FALSE) >> ELSE << >>)
    \o [ i \in 1..n |-> Param(ParamName(i), i > n - k) ]

Callables ==
    { [params |-> DeclaredParams(sh[1], sh[2], sh[3]), sig |-> sig, src |-> src,
       in_map |-> in_map] :
        sh \in { x \in (0..MaxParams) \X (0..MaxParams) \X BOOLEAN :
                   x[2] <= x[1] /\ x[1] + (IF x[3] THEN 1 ELSE 0) <= MaxParams },
        sig \in {"live", "hidden", "raises"}, src \in {"ok", "unavailable"},
        in_map \in BOOLEAN }

InitSchema == \E f \in Callables : InitWith(DefaultApp, EmptyStorage, f)

(* One descriptor of the registry path of tools/list (lines 436-474).      *)
InferSchema ==
    /\ last.method = "start"
    /\ schema_out' = ToolSchema(schema_in)
    /\ last' = Observation("schema")
    /\ UNCHANGED <<app, TOOL_REGISTRY, storage, temp_dir, presentations, current_id,
                   presentation_files, first_list, schema_in,
                   path_in, names_out, template_env, own_vars>>

NextSchema == InferSchema

SpecSchema == InitSchema /\ [][NextSchema]_vars

(***************************************************************************)
(* The names handed to storage, on their own.  A caller-supplied path is a *)
(* string, kept as the sequence of its pieces: a separator, a parent       *)
(* segment, a URL-encoded separator, plain text, the extension.            *)
(***************************************************************************)
PathPieces == {"/", "..", "%2F", "a", ".pptx"}

PathInputs == UNION { [1..n -> PathPieces] : n \in 0..MaxPathLen }

(* basename with the directories kept.                                     *)
KeepsDirectories(s) == s

(* urllib.parse.unquote, on the encoded separator. *)
unquote(s) == [ i \in 1..Len(s) |-> IF s[i] = "%2F" THEN "/" ELSE s[i] ]

(* os.path.basename: what follows the last separator. *)
basename(s) ==
    LET seps == { i \in 1..Len(s) : s[i] = "/" }
    IN  IF seps = {} THEN s
        ELSE SubSeq(s, (CHOOSE i \in seps : \A j \in seps : j <= i) + 1, Len(s))

endswith_pptx(s) == Len(s) > 0 /\ s[Len(s)] = ".pptx"

(* if not name.endswith('.pptx'): name = f"{name}.pptx" *)
ForcePptx(s) == IF endswith_pptx(s) THEN s ELSE s \o << ".pptx" >>

(* serve_presentation, lines 804-810. *)
ServedName(url_part) == ForcePptx(basename(unquote(url_part)))

(* Lines 543-547 (file_path) and 572-574 (template_path); line 622 binds   *)
(* the same name.                                                          *)
StagedName(path) == ForcePptx(basename(path))

(* The scratch path get_local_path returns for a name. *)
LocalPath(name) == << "tmp", "/" >> \o name

(* Lines 637-645 and 723-731: the name of an upload, and of the binding of *)
(* line 664; an empty file_path falls back on the rewritten argument, and  *)
(* an empty basename means no upload.                                      *)
UploadBase(original_file_path) ==
    IF original_file_path # << >>
    THEN basename(original_file_path)
    ELSE basename(LocalPath(StagedName(original_file_path)))

UploadNames(original_file_path) ==
    IF UploadBase(original_file_path) = << >> THEN {}
    ELSE { ForcePptx(UploadBase(original_file_path)) }

InitNames ==
    /\ InitCore(DefaultApp, EmptyStorage, NoCallable)
    /\ \E p \in PathInputs :
           InitInputs(p, NoChain, NoAnnotation, DefaultTemplateEnv, NoOverlap)

NamesStep(method, names) ==
    /\ last.method = "start"
    /\ names_out' = names
    /\ last' = Observation(method)
    /\ UNCHANGED <<app, TOOL_REGISTRY, storage, temp_dir, presentations, current_id,
                   presentation_files, first_list, schema_in, schema_out, path_in,
                   template_env, own_vars>>

(* GET /presentations/<path_in> *)
ServeName == NamesStep("serve", { ServedName(path_in) })

(* tools/call with file_path or template_path = path_in: the name staged   *)
(* and bound, and the name uploaded.                                       *)
StageName == NamesStep("stage", { StagedName(path_in) } \cup UploadNames(path_in))

NextNames == ServeName \/ StageName

SpecNames == InitNames /\ [][NextNames]_vars

(***************************************************************************)
(* The unwrap loop on its own, over every chain of up to MaxChain objects. *)
(***************************************************************************)
Chains ==
    { Chain(n, tail, nc) :
        n \in 1..MaxChain, tail \in {"plain", "self", "first"},
        nc \in {{}} \cup { {i} : i \in 1..MaxChain } }

InitUnwrap ==
    /\ InitCore(DefaultApp, EmptyStorage, NoCallable)
    /\ \E c \in { x \in Chains : x.not_callable \subseteq 1..x.len } :
           InitInputs(<< >>, c, NoAnnotation, DefaultTemplateEnv, NoOverlap)

(* One entry of the tool dict goes through lines 162-188. *)
RegisterTool ==
    /\ last.method = "start"
    /\ unwrap_out' = UnwrapRegistered(unwrap_in)
    /\ last' = Observation("register")
    /\ UNCHANGED <<app, TOOL_REGISTRY, storage, temp_dir, presentations, current_id,
                   presentation_files, first_list, schema_in, schema_out, path_in,
                   names_out, template_env, unwrap_in, annotation_in, types_out,
                   inflight>>

NextUnwrap == RegisterTool

SpecUnwrap == InitUnwrap /\ [][NextUnwrap]_vars

(***************************************************************************)
(* The two type tables on their own, over every annotation of the model.   *)
(***************************************************************************)
WrappableBases == {"str", "int", "float", "bool", "list", "dict", "Any", "Shape"}
Wraps == UNION { [1..n -> {"Optional", "List"}] : n \in 0..MaxWrap }

Annotations ==
    { Annotation(<< >>, "unannotated"), Annotation(<< >>, "None") }
    \cup { Annotation(wr, b) : wr \in Wraps, b \in WrappableBases }

InitTypes ==
    /\ InitCore(DefaultApp, EmptyStorage, NoCallable)
    /\ \E an \in Annotations :
           InitInputs(<< >>, NoChain, an, DefaultTemplateEnv, NoOverlap)

(* One parameter goes through both strategies. *)
InferType ==
    /\ last.method = "start"
    /\ types_out' = JsonTypes(SignatureType(annotation_in), SourceType(annotation_in))
    /\ last' = Observation("types")
    /\ UNCHANGED <<app, TOOL_REGISTRY, storage, temp_dir, presentations, current_id,
                   presentation_files, first_list, schema_in, schema_out, path_in,
                   names_out, template_env, unwrap_in, unwrap_out, annotation_in,
                   inflight>>

NextTypes == InferType

SpecTypes == InitTypes /\ [][NextTypes]_vars

(***************************************************************************)
(* Two tools/call requests in progress at once.  Each goes through the     *)
(* handler in four steps, which are the places where it touches the        *)
(* scratch directory or storage: the staging of file_path (540-566), the   *)
(* call of the tool (608-614), the post-processing with its uploads        *)
(* (616-741) and the finally clause (761-764).  The steps of the two       *)
(* requests interleave in every order; the server itself (HTTPServer,      *)
(* line 1317) runs them one request after the other, which is among the    *)
(* orders.                                                                 *)
(***************************************************************************)
OverlapPaths ==
    { PathStr("", "a", ".pptx"), PathStr("../x/", "a", ""), PathStr("", "b", "") }

OverlapRequests ==
    { Request("create_presentation", fp, PathAbsent, "deck1", IdAbsent, t, "none") :
        fp \in OverlapPaths, t \in BOOLEAN }
    \cup { Request("open_presentation", fp, PathAbsent, "deck1", IdAbsent, FALSE, "none") :
             fp \in OverlapPaths }
    \cup { Request("save_presentation", fp, PathAbsent, IdAbsent, IdAbsent, FALSE, "none") :
             fp \in OverlapPaths }
    \cup { Request("create_presentation_from_template", PathAbsent, tp, "deck1", IdAbsent,
                   FALSE, "none") :
             tp \in TemplatePaths }

OverlapStorages ==
    { [n \in Names |-> IF n = "a.pptx" THEN x ELSE IF n = "b.pptx" THEN y ELSE NoFile] :
        x \in {NoFile, 1}, y \in {NoFile, 1} }

(* A request in progress: where it is in the handler, its filename_base,   *)
(* the template argument, the tool's result, and what it uploaded (the document, and its place in *)
(* the order of the uploads; 0 when it uploaded nothing).                  *)
InFlight(r) ==
    [request |-> r, pc |-> "stage", fname |-> None, template |-> NoTemplateArg,
     result |-> ErrorResult,
     uploaded |-> {}, upload_doc |-> NoFile, upload_seq |-> 0]

Overlapping == 1..2

InitOverlap ==
    \E st \in OverlapStorages, r1 \in OverlapRequests, r2 \in OverlapRequests :
        /\ InitCore(DefaultApp, st, NoCallable)
        /\ InitInputs(<< >>, NoChain, NoAnnotation, DefaultTemplateEnv,
                      << InFlight(r1), InFlight(r2) >>)

OverlapFrame ==
    UNCHANGED <<app, TOOL_REGISTRY, last, first_list, schema_in, schema_out, path_in,
                names_out, template_env, unwrap_in, unwrap_out, annotation_in,
                types_out>>

(* Lines 540-606. *)
StageStep(i) ==
    LET p == inflight[i]
        f == StageFilePath(TheWorld, p.request.tool, p.request.file_path)
        t == StageTemplate(template_env, storage, f.temp, p.request.template_path)
    IN  /\ p.pc = "stage"
        /\ temp_dir' = IF f.status = "notfound" THEN temp_dir ELSE t.temp
        /\ inflight' = [inflight EXCEPT ![i] =
               [p EXCEPT !.fname = f.fname,
                         !.template = IF f.status = "notfound" THEN NoTemplateArg
                                      ELSE t.arg,
                         !.pc = IF f.status = "notfound" THEN "rejected" ELSE "invoke"]]
        /\ UNCHANGED <<storage, presentations, current_id, presentation_files>>
        /\ OverlapFrame

(* Lines 608-614. *)
InvokeStep(i) ==
    LET p == inflight[i]
        c == CallTool(p.request.tool, TheWorld, p.request,
                      Arguments(p.request, p.fname, p.template))
    IN  /\ p.pc = "invoke"
        /\ WithinBounds(c.w)
        /\ SetWorld(c.w)
        /\ inflight' = [inflight EXCEPT ![i] =
               [p EXCEPT !.result = c.result,
                         !.pc = IF c.raised THEN "cleanup" ELSE "post"]]
        /\ OverlapFrame

UploadsSoFar == Cardinality({ j \in Overlapping : inflight[j].upload_seq > 0 })

(* Lines 616-741. *)
PostStep(i) ==
    LET p == inflight[i]
        s == PostProcess(p.request.tool, TheWorld, p.result, p.fname, p.request)
    IN  /\ p.pc = "post"
        /\ SetWorld(s.w)
        /\ inflight' = [inflight EXCEPT ![i] =
               [p EXCEPT !.result = s.result,
                         !.uploaded = s.note.uploaded,
                         !.upload_doc = IF s.note.uploaded = {} THEN NoFile
                                        ELSE temp_dir[p.fname],
                         !.upload_seq = IF s.note.uploaded = {} THEN 0
                                        ELSE UploadsSoFar + 1,
                         !.pc = "cleanup"]]
        /\ OverlapFrame

(* Lines 761-764. *)
CleanupStep(i) ==
    LET p == inflight[i]
    IN  /\ p.pc = "cleanup"
        /\ temp_dir' = FinallyCleanup(temp_dir, p.fname)
        /\ inflight' = [inflight EXCEPT ![i] = [p EXCEPT !.pc = "done"]]
        /\ UNCHANGED <<storage, presentations, current_id, presentation_files>>
        /\ OverlapFrame

Stage == \E i \in Overlapping : StageStep(i)
Invoke == \E i \in Overlapping : InvokeStep(i)
Post == \E i \in Overlapping : PostStep(i)
Cleanup == \E i \in Overlapping : CleanupStep(i)

NextOverlap ==
    \/ Stage
    \/ Invoke
    \/ Post
    \/ Cleanup

SpecOverlap == InitOverlap /\ [][NextOverlap]_vars

(***************************************************************************)
(* The claims.                                                             *)
(***************************************************************************)
IsToolsCall == last.method = "tools/call"

(* The tool names of the model that contain none of 'create', 'add' and    *)
(* 'from_template'.                                                        *)
NonCreatingTools ==
    {"open_presentation", "save_presentation", "get_presentation_info", "manage_text"}

(* C1: a tools/call whose tool is in the registry and is not a creating    *)
(* tool, with a file_path whose normalized name storage does not hold, is  *)
(* answered with code -32602 and a message that contains the normalized    *)
(* name; the tool is not invoked, and no file of that name is in the       *)
(* scratch directory afterwards.                                           *)
C1_MissingFileRejected ==
    (/\ IsToolsCall
     /\ last.tool \in RegistryKeys(TOOL_REGISTRY) \cap NonCreatingTools
     /\ last.fname # None
     /\ ~last.was_stored)
    => (/\ last.code = CodeInvalidParams
        /\ last.msg_fname = last.fname
        /\ ~last.reached_invoke
        /\ temp_dir[last.fname] = NoFile)

C1_Witness ==
    /\ IsToolsCall
    /\ last.tool = "open_presentation"
    /\ last.fname = "a.pptx"
    /\ ~last.was_stored
    /\ last.code = CodeInvalidParams

(* C2: after a tools/call that got a local path for its file_path and      *)
(* reached the invoke step, whether it answered with the success envelope  *)
(* or with the -32603 envelope, the scratch directory holds no file under  *)
(* the name used for the call.                                             *)
C2_ScratchRemovedAfterInvoke ==
    (IsToolsCall /\ last.fname # None /\ last.reached_invoke)
    => (/\ temp_dir[last.fname] = NoFile
        /\ last.code \in {Success, CodeInternalError})

C2_Witness ==
    /\ IsToolsCall
    /\ last.file_staged
    /\ last.reached_invoke
    /\ last.tool_raised
    /\ last.code = CodeInternalError
    /\ temp_dir[last.fname] = NoFile

(* C3: every file the staging manager downloaded during a tools/call, for  *)
(* file_path or for a template_path found in storage, is gone from the     *)
(* scratch directory when the response is returned.                        *)
C3_EveryStagedFileRemoved ==
    IsToolsCall => \A n \in last.materialized : temp_dir[n] = NoFile

(* C4: a tools/call whose name is not a key of the registry is answered    *)
(* with code -32601 and nothing is rewritten, staged, invoked or stored;   *)
(* a request with any other method is answered with code -32601 as well.   *)
C4_UnknownNameStep ==
    /\ last'.method = "tools/call"
    /\ last'.tool \notin RegistryKeys(TOOL_REGISTRY)

C4_UnknownRejected ==
    [][ /\ C4_UnknownNameStep
           => (/\ last'.code = CodeToolNotFound
               /\ ~last'.reached_invoke
               /\ last'.fname = None
               /\ last'.materialized = {}
               /\ last'.uploaded = {}
               /\ UNCHANGED <<storage, temp_dir, presentations, current_id,
                              presentation_files>>)
        /\ last'.method = "other" => last'.code = CodeMethodNotFound ]_vars

C4_Witness ==
    /\ IsToolsCall
    /\ last.tool = "not_a_tool"
    /\ last.code = CodeToolNotFound
    /\ SessionCount(presentations) = 1

(* C5: when the tool raises during the invoke step the request ends with   *)
(* the -32603 envelope, whose message holds the tool name and the          *)
(* exception's message; the session store and the binding map are as the   *)
(* failed call left them.                                                  *)
C5_ToolRaiseIsInternalError ==
    (IsToolsCall /\ last.tool_raised)
    => (/\ last.code = CodeInternalError
        /\ last.msg_tool = last.tool
        /\ last.msg_exc \in {"tool failed", "tool failed late", "TypeError"}
        /\ presentations = last.left.pres
        /\ presentation_files = last.left.files)

C5_Witness ==
    /\ IsToolsCall
    /\ last.tool = "add_slide"
    /\ last.tool_raised
    /\ last.partial
    /\ last.code = CodeInternalError

(* C6: when the tool returned and the upload raises in the explicit save   *)
(* or in the re-upload of a rewritten file_path, the request still answers *)
(* with the success envelope.                                              *)
C6_UploadFailureKeepsSuccess ==
    (IsToolsCall /\ last.tool_returned /\ last.upload_failed \in {"save", "reupload"})
    => last.code = Success

(* C7: a call of an allow-listed tool that returned is answered with the   *)
(* success envelope whatever fails in the auto-save, and the auto-save's   *)
(* scratch file is removed.                                                *)
C7_AutoSaveFailureSwallowed ==
    (IsToolsCall /\ last.tool \in modification_tools /\ last.tool_returned)
    => (last.code = Success /\ last.autosave_tmp # "left")

(* C8: with a non-empty registry, the names tools/list returns are the     *)
(* keys of the registry, one descriptor each; a listed name is never       *)
(* answered -32601 by tools/call.                                          *)
C8_ListedNamesAreRegistryKeys ==
    Len(TOOL_REGISTRY) > 0
    => (/\ last.method = "tools/list"
           => (/\ SeqNames(DescriptorNames(last.listed)) = RegistryKeys(TOOL_REGISTRY)
               /\ Len(last.listed) = Len(TOOL_REGISTRY))
        /\ (IsToolsCall
            /\ last.tool \in SeqNames(DescriptorNames(ListedTools(app, TOOL_REGISTRY))))
           => last.code # CodeToolNotFound)

(* The parameters of f, self aside, that have no default.                  *)
DeclaredRequired(f) ==
    { f.params[i].name : i \in { j \in 1..Len(f.params) :
                                   NotSelf(f.params[j]) /\ ~f.params[j].has_default } }

(* C9: whichever path produced a tool's schema, its required list is the   *)
(* set of the tool's declared parameters, self aside, without a default.   *)
C9_RequiredIsNoDefault ==
    (last.method = "schema" /\ schema_out.properties # << >>)
    => SeqNames(schema_out.required) = DeclaredRequired(schema_in)

(* C10: the registry stays what build_tool_registry made of the            *)
(* application at startup, and every tools/list returns the names the      *)
(* first one returned, in the same order.                                  *)
C10_RegistryBuiltOnce ==
    /\ TOOL_REGISTRY = build_tool_registry(app)
    /\ (last.method = "tools/list" /\ first_list.count > 0)
       => DescriptorNames(last.listed) = first_list.names

C10_Witness ==
    /\ last.method = "tools/list"
    /\ first_list.count = 2
    /\ SessionCount(presentations) = 1
    /\ temp_dir["a.pptx"] # NoFile

C12_CreateStoresUnderGivenId ==
    (/\ IsToolsCall
     /\ last.tool = "create_presentation"
     /\ last.request.id # IdAbsent
     /\ last.code = Success)
    => (/\ last.result.presentation_id = last.request.id
        /\ presentations[last.request.id] = last.result.slide_count
        /\ (last.request.title /\ last.request.fault # "lib")
           => (last.result.title_applied /\ last.result.slide_count >= 1))

C12_Witness ==
    /\ IsToolsCall
    /\ last.tool = "create_presentation"
    /\ last.request.id = "deck1"
    /\ last.request.title
    /\ last.code = Success
    /\ last.result.title_applied
    /\ presentations["deck1"] = 1

(* The list is the hardcoded one: the known names in order, each with the  *)
(* empty schema.                                                           *)
C13_ListIsHardcoded ==
    /\ DescriptorNames(last.listed) = KnownTools
    /\ \A i \in 1..Len(last.listed) : last.listed[i].schema = EmptySchema

C14_OneEnvelopePerRequest ==
    last.method \notin {"start", "GET", "schema"}
    => (/\ ~last.handler_raised
        /\ last.envelope.id = last.request_id
        /\ last.envelope.has_result # last.envelope.has_error
        /\ last.envelope.has_error
           => last.envelope.code \in {CodeToolNotFound, CodeInvalidParams,
                                      CodeInternalError})

(* A name without a directory component that ends in .pptx.                *)
C15_CleanName(n) == endswith_pptx(n) /\ \A i \in 1..Len(n) : n[i] # "/"

(* C15: every name the document-serving path and the dispatcher hand to    *)
(* storage or bind to a session, whatever the caller-supplied URL path,    *)
(* file_path or template_path, has no directory component and ends in      *)
(* .pptx.                                                                  *)
C15_StorageNamesAreBasenames ==
    \A n \in names_out : C15_CleanName(n)

C15_Witness ==
    /\ path_in = << "..", "%2F", "a" >>
    /\ last.method = "serve"
    /\ names_out = { << "a", ".pptx" >> }

(* C16: a registered tool called with a file_path whose name storage does  *)
(* not hold is refused with -32602 exactly when its name contains none of  *)
(* 'create', 'add' and 'from_template' (otherwise a fresh local path is    *)
(* handed out); save_presentation is among the refused: the tool is not    *)
(* invoked and nothing is written to storage under that name.              *)
C16_CreatableByName ==
    (/\ IsToolsCall
     /\ last.looked_up
     /\ last.fname # None
     /\ ~last.was_stored)
    => (/\ (last.code = CodeInvalidParams) <=> (last.tool \in NonCreatingTools)
        /\ last.tool = "save_presentation"
           => (/\ ~last.reached_invoke
               /\ last.uploaded = {}
               /\ storage[last.fname] = NoFile))

C16_Witness ==
    /\ IsToolsCall
    /\ last.tool = "save_presentation"
    /\ last.fname = "a.pptx"
    /\ ~last.was_stored
    /\ last.code = CodeInvalidParams
    /\ presentations["deck1"] # NoDoc

(* C17: a save_presentation call that reached the invoke step, whose tool  *)
(* returned with the staged local file present and whose upload did not    *)
(* fail, has uploaded the file under the normalized filename (storage      *)
(* holds the session's document as the tool wrote it, so the upload came   *)
(* before the cleanup), its result carries download_url, filename,         *)
(* saved_to_disk and a message ending with the download URL, and the       *)
(* staged file is gone.                                                    *)
C17_SaveUploadsThenCleans ==
    (/\ IsToolsCall
     /\ last.tool = "save_presentation"
     /\ last.tool_returned
     /\ last.file_staged
     /\ last.upload_failed = "none")
    => (/\ last.code = Success
        /\ last.uploaded = {last.fname}
        /\ storage[last.fname] # NoFile
        /\ last.result.download_url = last.fname
        /\ last.result.filename = last.fname
        /\ last.result.message_url = last.fname
        /\ last.result.saved_to_disk
        /\ temp_dir[last.fname] = NoFile)

(* C18: a save_presentation response whose tool returned its error result  *)
(* (no such session, or the write failed) does not report a save, that is  *)
(* carries neither saved_to_disk nor a download URL, and leaves storage as *)
(* it was.                                                                 *)
C18_SavedOnlyIfWritten ==
    [][ (/\ last'.method = "tools/call"
         /\ last'.tool = "save_presentation"
         /\ last'.tool_returned
         /\ last'.code = Success
         /\ last'.result.error)
        => (/\ ~last'.result.saved_to_disk
            /\ last'.result.download_url = None
            /\ storage' = storage) ]_vars

C20_AutoSaveTargetsCurrentSession ==
    [][ (/\ last'.method = "tools/call"
         /\ last'.tool_returned
         /\ last'.tool \in modification_tools
         /\ last'.request.fault = "none"
         /\ last'.request.presentation_id = IdAbsent
         /\ current_id # None
         /\ presentation_files[current_id] # None)
        => (/\ last'.result.auto_saved
            /\ presentation_files[current_id] \in last'.uploaded
            /\ storage'[presentation_files[current_id]] = presentations'[current_id]) ]_vars

(* C25: the registry's unwrap loop takes at most its budget of 5 steps for *)
(* every callable, a wrapper chain that refers to itself included; when    *)
(* the budget runs out while the callable reached still has a wrapper      *)
(* attribute, the registry keeps the registered (outermost) callable.      *)
C25_UnwrapBoundedKeepsOutermost ==
    last.method = "register"
    => (/\ unwrap_out.attempts <= max_unwrap
        /\ unwrap_out.exhausted => unwrap_out.kept = 1)

(* C26: the signature-based strategy and the source-parse strategy give    *)
(* every parameter declaration the same JSON type.                         *)
C26_StrategiesAgreeOnTypes ==
    last.method = "types" => types_out.signature = types_out.source

(* The binding map after a call bound the session pres_id to the           *)
(* normalized name of the call's file_path.                                *)
C21_BoundByCall(pres_id) ==
    presentation_files' =
        [presentation_files EXCEPT ![pres_id] = NormalizedName(last'.request.file_path)]

(* C21: the binding map changes only in a tools/call whose tool returned a *)
(* result with a presentation_id while a file_path argument was present,   *)
(* and then maps exactly that id to the normalized filename of the call;   *)
(* every other request, every error response included, leaves the map      *)
(* unchanged; no entry is ever removed, and every bound id is a key of the *)
(* session store.                                                          *)
C21_BindingOnlyByIdAndPath ==
    [][ /\ presentation_files' # presentation_files
           => (/\ last'.method = "tools/call"
               /\ last'.tool_returned
               /\ last'.code = Success
               /\ last'.result.presentation_id # None
               /\ last'.request.file_path.kind = "str"
               /\ C21_BoundByCall(last'.result.presentation_id))
        /\ last'.code # Success => presentation_files' = presentation_files
        /\ (last'.method = "tools/call" /\ last'.code = Success
            /\ last'.result.presentation_id = None)
           => presentation_files' = presentation_files
        /\ \A i \in Ids : presentation_files[i] # None => presentation_files'[i] # None
        /\ \A i \in Ids : presentation_files'[i] # None => presentations'[i] # NoDoc ]_vars

(* C22: a call of a tool other than save_presentation with a file_path,    *)
(* whose tool returned and whose upload did not fail, is answered with the *)
(* success envelope and leaves no staged file; when the local file existed *)
(* after the call it was uploaded under the normalized filename and the    *)
(* result carries the download URL, otherwise nothing was uploaded; after  *)
(* a create_presentation during which nothing failed the document is in    *)
(* storage under the normalized filename and the returned session is bound *)
(* to it.                                                                  *)
C22_RewrittenFileIsUploaded ==
    (/\ IsToolsCall
     /\ last.tool # "save_presentation"
     /\ last.fname # None
     /\ last.tool_returned
     /\ last.upload_failed = "none")
    => (/\ last.code = Success
        /\ temp_dir[last.fname] = NoFile
        /\ last.local_exists
           => (/\ last.uploaded = {last.fname}
               /\ last.result.download_url = last.fname
               /\ storage[last.fname] # NoFile)
        /\ ~last.local_exists => last.uploaded = {}
        /\ (last.tool = "create_presentation" /\ last.request.fault = "none")
           => (/\ storage[last.fname] = presentations[last.result.presentation_id]
               /\ presentation_files[last.result.presentation_id] = last.fname))

(* The calls of the three tools that open a session.                       *)
C23_OpensSession(tool) ==
    /\ last'.method = "tools/call"
    /\ last'.tool = tool
    /\ last'.reached_invoke

(* C23: the current-session pointer, whenever set, is a key of the session *)
(* store; a step that changes it is a create_presentation call, which has  *)
(* stored the session it points to; create_presentation_from_template and  *)
(* open_presentation leave the pointer unchanged.                          *)
C23_PointerNamesSession ==
    [][ /\ current_id' # None => presentations'[current_id'] # NoDoc
        /\ current_id' # current_id
           => (/\ C23_OpensSession("create_presentation")
               /\ presentations'[current_id'] # NoDoc)
        /\ (\/ C23_OpensSession("create_presentation_from_template")
            \/ C23_OpensSession("open_presentation"))
           => current_id' = current_id ]_vars

C23_Witness ==
    /\ IsToolsCall
    /\ last.tool = "open_presentation"
    /\ last.code = Success
    /\ last.file_staged
    /\ last.result.presentation_id = "deck1"
    /\ current_id = "deck1"
    /\ presentations["deck1"] # NoDoc

(* C24: a create_presentation, create_presentation_from_template or       *)
(* open_presentation call without an id that opened a session was given an *)
(* identifier no session had, so the number of sessions grew by one and no *)
(* existing session's document was replaced.                               *)
C24_GeneratedIdIsFresh ==
    [][ (/\ last'.method = "tools/call"
         /\ last'.tool \in {"create_presentation", "create_presentation_from_template",
                            "open_presentation"}
         /\ last'.request.id = IdAbsent
         /\ last'.code = Success
         /\ ~last'.result.error)
        => (/\ presentations[last'.result.presentation_id] = NoDoc
            /\ SessionCount(presentations') = SessionCount(presentations) + 1) ]_vars

(* Neither strategy gives the callable a schema: the signature is hidden   *)
(* behind a wrapper or cannot be read and rebuilt, and the source cannot   *)
(* be read or parsed, or the module map does not name the tool.            *)
C27_InferenceFails(f) ==
    /\ f.sig = "hidden" \/ (f.sig = "raises" /\ f.src # "ok")
    /\ f.src # "ok" \/ ~f.in_map

(* C27: a tools/list answered from the registry is a success envelope with *)
(* one descriptor per registered tool, in the registry's order; a tool     *)
(* whose schema inference failed has the empty schema, and every other     *)
(* tool has the schema inferred for it alone.                              *)
C27_InferenceFailureNotSurfaced ==
    (last.method = "tools/list" /\ ListSource(app, TOOL_REGISTRY) = "registry")
    => (/\ last.code = Success
        /\ last.envelope.has_result
        /\ Len(last.listed) = Len(TOOL_REGISTRY)
        /\ \A i \in 1..Len(TOOL_REGISTRY) :
              /\ last.listed[i].name = TOOL_REGISTRY[i]
              /\ last.listed[i].schema =
                     IF C27_InferenceFails(ToolCallable(TOOL_REGISTRY[i]))
                     THEN EmptySchema
                     ELSE ToolSchema(ToolCallable(TOOL_REGISTRY[i])))

C27_Witness ==
    /\ last.method = "tools/list"
    /\ ListSource(app, TOOL_REGISTRY) = "registry"
    /\ last.code = Success
    /\ \E i \in 1..Len(last.listed) :
          /\ last.listed[i].name = "manage_text"
          /\ C27_InferenceFails(ToolCallable("manage_text"))
          /\ last.listed[i].schema = EmptySchema
    /\ \E i \in 1..Len(last.listed) :
          /\ last.listed[i].name = "create_presentation"
          /\ last.listed[i].schema.properties # << >>

(* The candidates of the template search in the order the claim gives:     *)
(* the directories in their fixed order, in each the normalized name       *)
(* before the caller's value.                                              *)
C28_Candidate(k, tp) ==
    << template_dirs(template_env)[(k + 1) \div 2],
       IF k % 2 = 1 THEN NormalizedName(tp) ELSE PathString(tp) >>

C28_Matches(k, tp) ==
    /\ C28_Candidate(k, tp)[1] # ""
    /\ C28_Candidate(k, tp)[1] \in template_env.existing
    /\ C28_Candidate(k, tp) \in template_env.files

C28_Hits(tp) == { k \in 1..(2 * Len(TemplateDirs)) : C28_Matches(k, tp) }

C28_FirstHit(tp) ==
    C28_Candidate(CHOOSE k \in C28_Hits(tp) : \A j \in C28_Hits(tp) : k <= j, tp)

(* C28: a call with a template_path that reached the template step: when   *)
(* storage holds the normalized name the tool receives the staged copy;    *)
(* otherwise it receives the first candidate that exists; when none        *)
(* exists it receives the caller's value unchanged, and the dispatcher     *)
(* goes on to the tool without a not-found error of its own.               *)
C28_TemplateFirstMatchWins ==
    (/\ IsToolsCall
     /\ last.looked_up
     /\ last.request.file_path.kind = "absent"
     /\ last.request.template_path.kind = "str")
    => LET tp == last.request.template_path
       IN  /\ last.code # CodeInvalidParams
           /\ last.reached_invoke
           /\ IF presentation_exists(storage, NormalizedName(tp))
              THEN last.template_arg = TemplateArg("staged", "", NormalizedName(tp))
              ELSE IF C28_Hits(tp) # {}
              THEN last.template_arg =
                       TemplateArg("local", C28_FirstHit(tp)[1], C28_FirstHit(tp)[2])
              ELSE last.template_arg = TemplateArg("raw", "", PathString(tp))

C28_Witness ==
    /\ IsToolsCall
    /\ last.tool = "create_presentation_from_template"
    /\ last.request.template_path = PathStr("", "a", "")
    /\ ~presentation_exists(storage, "a.pptx")
    /\ template_env.ppt_template_path = ConfiguredTemplatePath
    /\ template_env.files = { <<"./templates", "a.pptx">>, <<"./templates", "a">> }
    /\ last.template_arg = TemplateArg("local", "./templates", "a.pptx")
    /\ last.code = Success

(* C30: handling initialize or tools/list changes neither the session     *)
(* store, the current-session pointer, the binding map, the registry, the  *)
(* storage contents nor the scratch directory; initialize answers with the *)
(* same protocol version, capabilities and server name and version in      *)
(* every state.                                                            *)
C30_InitializeAndListReadOnly ==
    [][ /\ last'.method \in {"initialize", "tools/list"}
           => (/\ UNCHANGED <<presentations, current_id, presentation_files,
                              TOOL_REGISTRY, storage, temp_dir>>
               /\ last'.code = Success)
        /\ last'.method = "initialize"
           => last'.server_info =
                  ServerInfo("2024-11-05", {"tools"}, "office-powerpoint-mcp-server",
                             "2.0.0") ]_vars

C30_Witness ==
    /\ last.method = "tools/list"
    /\ Len(last.listed) = Len(TOOL_REGISTRY)
    /\ presentations["deck1"] = 1
    /\ current_id = "deck1"
    /\ presentation_files["deck1"] = "a.pptx"
    /\ storage["a.pptx"] = 1
    /\ temp_dir["a.pptx"] # NoFile

(* C29: of two tools/call requests in progress at once, a step of one      *)
(* changes the scratch directory and storage only under the name its own   *)
(* file_path (or template_path) normalizes to, so that requests naming different documents    *)
(* have distinct staged files and leave each other's staged file and       *)
(* stored object alone in every order of their steps; requests naming the  *)
(* same document have the same staged name, and once both have finished    *)
(* and one of them uploaded, the stored object is the document of the      *)
(* later upload.                                                           *)
C29_Document(i) ==
    IF inflight[i].request.file_path.kind = "str"
    THEN NormalizedName(inflight[i].request.file_path)
    ELSE NormalizedName(inflight[i].request.template_path)

C29_StepOf(i) == inflight'[i] # inflight[i]

C29_Finished(i) == inflight[i].pc \in {"done", "rejected"}

C29_LaterUpload(i) ==
    /\ inflight[i].upload_seq > 0
    /\ \A j \in Overlapping : inflight[j].upload_seq <= inflight[i].upload_seq

C29_NoInterference ==
    [][ \A i \in Overlapping :
          C29_StepOf(i)
          => (/\ \A n \in Names \ {C29_Document(i)} :
                    /\ temp_dir'[n] = temp_dir[n]
                    /\ storage'[n] = storage[n]
              /\ inflight'[i].fname \in {None, C29_Document(i)}
              /\ inflight'[i].uploaded \subseteq {C29_Document(i)}
              /\ \A j \in Overlapping :
                    (/\ C29_Document(j) = C29_Document(i)
                     /\ C29_Finished(i)' /\ C29_Finished(j)'
                     /\ C29_LaterUpload(j)')
                    => storage'[C29_Document(i)] = inflight'[j].upload_doc) ]_vars

C29_Witness ==
    /\ C29_Document(1) = "a.pptx"
    /\ C29_Document(2) = "b.pptx"
    /\ inflight[1].pc = "done"
    /\ inflight[1].uploaded = {"a.pptx"}
    /\ inflight[2].pc = "post"
    /\ inflight[2].upload_seq = 0
    /\ temp_dir["b.pptx"] # NoFile
    /\ temp_dir["a.pptx"] = NoFile
    /\ storage["a.pptx"] = inflight[1].upload_doc

====
